---- MODULE Spec2Model ----
(***************************************************************************)
(* A model of the query-fusion engine of src/process_query.py             *)
(* (SQLProcessor.fix_simple_syntax_errors, SQLProcessor.parse_columns and  *)
(* SQLProcessor.unify_queries) and of the schema-fusion engine of          *)
(* src/aws version/definitive.py (OrionQueryUnifier.analyze_table_schemas  *)
(* and generate_unified_query).  SQL texts are TLA+ strings handled one    *)
(* character at a time (Len, SubSeq and \o), as the Python code and its    *)
(* regular expressions handle them.                                        *)
(***************************************************************************)
EXTENDS Integers, Sequences, FiniteSets, TLC

VARIABLES
    norm_query,         \* fix_simple_syntax_errors: the argument `query`
    norm_result,        \* fix_simple_syntax_errors: the value returned
    norm_again,         \* the value returned when applied to norm_result
    select_clause,      \* parse_columns: select_match.group(1)
    scan_pos,           \* parse_columns: index of `char` in the for loop
    current_col,        \* parse_columns: current_col
    parenthesis_count,  \* parse_columns: parenthesis_count
    in_quotes,          \* parse_columns: in_quotes
    columns,            \* parse_columns: columns (the fragments)
    scan_pc,            \* parse_columns: "loop" (149-166), "tail" (168), "done"
    parse_query,        \* parse_columns: the argument `query`
    parse_result,       \* parse_columns: the list returned
    parse_pc,           \* parse_columns: "call" before it ran, "done" after
    queries,            \* unify_queries: the argument `queries`
    all_column_sets,    \* unify_queries: all_column_sets
    all_aliases,        \* unify_queries: all_aliases
    ctes,               \* unify_queries: ctes
    union_columns,      \* unify_queries: union_columns of every branch
    union_queries,      \* unify_queries: union_queries
    final_query,        \* unify_queries: the value returned
    type_warnings,      \* SQLProcessor.type_warnings
    log,                \* the warnings and errors parse_columns hands to logger
    unify_pc,           \* unify_queries: "call" with the argument bound, "done" at return
    infer_expr,         \* infer_column_type: the argument `column_expr`
    infer_type,         \* infer_column_type: the value returned
    compat_sets,        \* check_type_compatibility: the argument all_column_sets
    compat_warnings,    \* check_type_compatibility: the list returned
    compat_pc,          \* check_type_compatibility: "call" before it ran, "done" after
    table_names,        \* execute_pipeline: validated_tables
    schemas,            \* execute_pipeline: table_schemas
    column_types,       \* analyze_table_schemas: column_types, in insertion order
    all_columns,        \* analyze_table_schemas: all_columns
    column_final_types, \* generate_unified_query: column_final_types
    final_column_parts, \* generate_unified_query: final_column_parts
    cte_statements,     \* generate_unified_query: cte_statements
    joins,              \* generate_unified_query: joins
    unified_query,      \* execute_pipeline: the value returned
    fusion_pc,          \* execute_pipeline: the stage that runs next, "aborted", "done"
    athena_client,      \* OrionQueryUnifier.athena_client
    raw_table_names,    \* execute_pipeline: the argument table_names
    table_index,        \* execute_pipeline: index of `table` in the loop of line 380
    stages,             \* the stages execute_pipeline has run so far, in order
    started_queries,    \* number of start_query_execution calls made
    outcomes,           \* how get_table_schema ended for each table so far
    authenticated,      \* the value authenticate_athena returned
    wait_state,         \* _wait_for_query_completion: state
    wait_retries,       \* _wait_for_query_completion: retries
    wait_polls,         \* number of get_query_execution calls made in this wait
    wait_observed,      \* the state the engine reported last in this wait
    wait_result,        \* _wait_for_query_completion: the value returned
    wait_pc,            \* _wait_for_query_completion: "loop", "returned", "raised"
    main_pc,            \* process_query.main: the statement that runs next
    issue_comments,     \* the comments posted on the issue, in order
    save_pc,            \* save_unified_query: the step that runs next
    save_query,         \* save_unified_query: the argument unified_query
    save_calls,         \* number of save_unified_query calls so far
    save_trace,         \* what each step of the current call did
    gh_branch,          \* the branch unified-query-issue-<n> exists
    gh_file,            \* content of queries/unified-query-issue-<n>.sql on it
    gh_open_pulls,      \* number of open pull requests from the branch
    branch_creations,   \* number of create_git_ref calls that succeeded
    file_creations,     \* number of create_file calls that succeeded
    pull_creations,     \* number of create_pull calls that succeeded
    pipeline_pc,        \* execute_data_pipeline: the stage that runs next
    pipeline_config,    \* execute_data_pipeline: the argument pipeline_config
    processed_table_names, \* execute_data_pipeline: processed_table_names
    table_schemas,      \* execute_data_pipeline: table_schemas
    athena_state,       \* get_athena_table_schema: state
    pipeline_result     \* execute_data_pipeline: the value returned

normVars == <<norm_query, norm_result, norm_again>>
scanVars == <<select_clause, scan_pos, current_col, parenthesis_count,
              in_quotes, columns, scan_pc>>
parseVars == <<parse_query, parse_result, parse_pc>>
unifyVars == <<queries, all_column_sets, all_aliases, ctes, union_columns,
               union_queries, final_query, type_warnings, log, unify_pc>>
inferVars == <<infer_expr, infer_type>>
\* What the actions of the query-fusion engine's other parts leave alone.
compatVars == <<compat_sets, compat_warnings, compat_pc>>
fusionVars == <<table_names, schemas, column_types, all_columns, column_final_types,
                final_column_parts, cte_statements, joins, unified_query, fusion_pc>>
callVars == <<athena_client, raw_table_names, table_index, started_queries, outcomes,
              authenticated>>
pipeVars == <<callVars, stages>>
waitVars == <<wait_state, wait_retries, wait_polls, wait_observed, wait_result, wait_pc>>
mainVars == <<main_pc, issue_comments>>
saveVars == <<save_pc, save_query, save_calls, save_trace, gh_branch, gh_file,
              gh_open_pulls, branch_creations, file_creations, pull_creations>>
modularVars == <<pipeline_pc, pipeline_config, processed_table_names, table_schemas,
                 athena_state, pipeline_result>>
hubVars == <<mainVars, saveVars, modularVars>>
extVars == <<pipeVars, waitVars, hubVars>>
procVars == <<normVars, scanVars, parseVars, inferVars, compatVars>>
athenaVars == <<fusionVars, pipeVars, waitVars>>
\* What the actions of the single-class Athena engine leave alone.
sqlVars == <<procVars, unifyVars, hubVars>>
restVars == <<inferVars, compatVars, fusionVars, extVars>>
vars == <<normVars, scanVars, parseVars, unifyVars, restVars>>

\* The value of a variable that holds no result yet.
None == "<None>"

-----------------------------------------------------------------------------
(* Python's str and re primitives, on TLA+ strings.                        *)

\* s[i], and "" where Python would find no character to look at.
Char(s, i) == IF 1 <= i /\ i <= Len(s) THEN SubSeq(s, i, i) ELSE ""

LowerLetters == "abcdefghijklmnopqrstuvwxyz"
UpperLetters == "ABCDEFGHIJKLMNOPQRSTUVWXYZ"
Digits == "0123456789"

CharsOf(s) == {Char(s, i) : i \in 1..Len(s)}

\* \s of re and the characters str.strip() and str.split() remove.
SpaceChars == {" ", "\n", "\t"}
IsSpace(c) == c \in SpaceChars

\* \w of re: what \b tells apart from the rest.
WordChars == CharsOf(LowerLetters) \cup CharsOf(UpperLetters) \cup CharsOf(Digits) \cup {"_"}
IsWordChar(c) == c \in WordChars

UpperOf == [c \in CharsOf(LowerLetters) |->
               Char(UpperLetters, CHOOSE i \in 1..Len(LowerLetters) : Char(LowerLetters, i) = c)]
LowerOf == [c \in CharsOf(UpperLetters) |->
               Char(LowerLetters, CHOOSE i \in 1..Len(UpperLetters) : Char(UpperLetters, i) = c)]

ToUpperChar(c) == IF c \in DOMAIN UpperOf THEN UpperOf[c] ELSE c
ToLowerChar(c) == IF c \in DOMAIN LowerOf THEN LowerOf[c] ELSE c

RECURSIVE Upper(_)
Upper(s) == IF s = "" THEN "" ELSE ToUpperChar(Char(s, 1)) \o Upper(Tail(s))

RECURSIVE Lower(_)
Lower(s) == IF s = "" THEN "" ELSE ToLowerChar(Char(s, 1)) \o Lower(Tail(s))

SetMin(S) == CHOOSE x \in S : \A y \in S : x <= y
SetMax(S) == CHOOSE x \in S : \A y \in S : x >= y

\* str.strip(): leading and trailing whitespace removed.
Strip(s) ==
    LET keep == {i \in 1..Len(s) : ~IsSpace(Char(s, i))}
    IN  IF keep = {} THEN "" ELSE SubSeq(s, SetMin(keep), SetMax(keep))

\* str.endswith / str.startswith
EndsWith(s, suffix) ==
    Len(s) >= Len(suffix) /\ SubSeq(s, Len(s) - Len(suffix) + 1, Len(s)) = suffix
StartsAt(s, i, word) ==
    i >= 1 /\ i + Len(word) - 1 <= Len(s) /\ SubSeq(s, i, i + Len(word) - 1) = word

\* The index of the first character at or after i that is no whitespace
\* (Len(s) + 1 when there is none): where a greedy \s* or \s+ stops.
SkipSpaces(s, i) ==
    LET stop == {j \in i..Len(s) : ~IsSpace(Char(s, j))}
    IN  IF stop = {} THEN Len(s) + 1 ELSE SetMin(stop)

\* re.sub(r'\s+', ' ', s): every maximal run of whitespace becomes one space.
RECURSIVE CollapseFrom(_, _)
CollapseFrom(s, i) ==
    IF i > Len(s) THEN ""
    ELSE IF IsSpace(Char(s, i)) THEN " " \o CollapseFrom(s, SkipSpaces(s, i))
    ELSE Char(s, i) \o CollapseFrom(s, i + 1)

CollapseWhitespace(s) == CollapseFrom(s, 1)

-----------------------------------------------------------------------------
(* SQLProcessor.fix_simple_syntax_errors                                    *)

\* common_mistakes, in the insertion order the dict is iterated in.  An entry
\* is the regular expression  first (\s+ second)? \b  and its replacement.
common_mistakes == <<
    [first |-> "SELETC", second |-> "",       correction |-> "SELECT"],
    [first |-> "FROM",   second |-> "FROM",   correction |-> "FROM"],
    [first |-> "WEHRE",  second |-> "",       correction |-> "WHERE"],
    [first |-> "GROUPP", second |-> "BY",     correction |-> "GROUP BY"],
    [first |-> "ORDER",  second |-> "BYY",    correction |-> "ORDER BY"],
    [first |-> "JOIN",   second |-> "JOIN",   correction |-> "JOIN"],
    [first |-> "INNER",  second |-> "INNER",  correction |-> "INNER"],
    [first |-> "HAVINGG", second |-> "",      correction |-> "HAVING"],
    [first |-> "WHERRE", second |-> "",       correction |-> "WHERE"] >>

\* The word matches at i whatever the case of the letters (re.IGNORECASE).
WordAt(s, i, word) ==
    /\ i >= 1 /\ i + Len(word) - 1 <= Len(s)
    /\ \A k \in 1..Len(word) : ToUpperChar(Char(s, i + k - 1)) = Char(word, k)

\* \b after a match that ends in a letter at index e: the text ends there or
\* the next character is no word character.
BoundaryAfter(s, e) == e = Len(s) \/ ~IsWordChar(Char(s, e + 1))

\* The index of the last character of the match of `mistake` that starts at i,
\* 0 when it does not match there.  The pattern has no \b in front.
MistakeEnd(s, i, mistake) ==
    IF ~WordAt(s, i, mistake.first) THEN 0
    ELSE IF mistake.second = ""
         THEN LET e == i + Len(mistake.first) - 1
              IN  IF BoundaryAfter(s, e) THEN e ELSE 0
    ELSE LET j == i + Len(mistake.first)
             k == SkipSpaces(s, j)
             e == k + Len(mistake.second) - 1
         IN  IF k > j /\ WordAt(s, k, mistake.second) /\ BoundaryAfter(s, e) THEN e ELSE 0

\* re.sub(mistake, correction, query, flags=re.IGNORECASE): the matches are
\* found left to right and do not overlap; the scan resumes after a match.
RECURSIVE SubFrom(_, _, _)
SubFrom(s, i, mistake) ==
    IF i > Len(s) THEN ""
    ELSE LET e == MistakeEnd(s, i, mistake)
         IN  IF e > 0 THEN mistake.correction \o SubFrom(s, e + 1, mistake)
             ELSE Char(s, i) \o SubFrom(s, i + 1, mistake)

ReSub(s, mistake) == SubFrom(s, 1, mistake)

\* for mistake, correction in common_mistakes.items(): query = re.sub(...)
RECURSIVE ApplyMistakes(_, _)
ApplyMistakes(s, n) ==
    IF n > Len(common_mistakes) THEN s
    ELSE ApplyMistakes(ReSub(s, common_mistakes[n]), n + 1)

EnsureTerminator(s) == IF EndsWith(s, ";") THEN s ELSE s \o ";"

fix_simple_syntax_errors(query) ==
    ApplyMistakes(CollapseWhitespace(EnsureTerminator(Strip(query))), 1)

-----------------------------------------------------------------------------
(* SQLProcessor.parse_columns, lines 144-169: the projection-list scanner. *)

\* The state of the loop: current_col, parenthesis_count, in_quotes, columns.
ScanStart ==
    [current_col |-> "", parenthesis_count |-> 0, in_quotes |-> FALSE, columns |-> <<>>]

\* The chain with the parentheses counted inside quoted literals too.
ScanBranchCountingQuotedParens(st, char) ==
    IF char = "'" /\ ~st.in_quotes THEN "open_quote"
    ELSE IF char = "'" /\ st.in_quotes THEN "close_quote"
    ELSE IF char = "(" THEN "open_paren"
    ELSE IF char = ")" THEN "close_paren"
    ELSE IF char = "," /\ st.parenthesis_count = 0 /\ ~st.in_quotes THEN "comma"
    ELSE "other"

\* The branch of the if/elif chain of lines 150-166 that `char` takes.
ScanBranch(st, char) ==
    IF char = "'" /\ ~st.in_quotes THEN "open_quote"
    ELSE IF char = "'" /\ st.in_quotes THEN "close_quote"
    ELSE IF char = "(" /\ ~st.in_quotes THEN "open_paren"
    ELSE IF char = ")" /\ ~st.in_quotes THEN "close_paren"
    ELSE IF char = "," /\ st.parenthesis_count = 0 /\ ~st.in_quotes THEN "comma"
    ELSE "other"

\* One iteration of the loop: what the branch does to the state.
ScanStep(st, char) ==
    LET branch == ScanBranch(st, char) IN
    CASE branch = "open_quote" ->
            [st EXCEPT !.in_quotes = TRUE, !.current_col = @ \o char]
      [] branch = "close_quote" ->
            [st EXCEPT !.in_quotes = FALSE, !.current_col = @ \o char]
      [] branch = "open_paren" ->
            [st EXCEPT !.parenthesis_count = @ + 1, !.current_col = @ \o char]
      [] branch = "close_paren" ->
            [st EXCEPT !.parenthesis_count = @ - 1, !.current_col = @ \o char]
      [] branch = "comma" ->
            [st EXCEPT !.columns = Append(@, Strip(st.current_col)), !.current_col = ""]
      [] OTHER ->
            [st EXCEPT !.current_col = @ \o char]

\* Lines 168-169: the last fragment is kept unless it trims to nothing.
ScanFinish(st) ==
    IF Strip(st.current_col) # "" THEN Append(st.columns, Strip(st.current_col))
    ELSE st.columns

\* The whole loop over select_clause, from index i on.
RECURSIVE ScanFrom(_, _, _)
ScanFrom(clause, i, st) ==
    IF i > Len(clause) THEN st
    ELSE ScanFrom(clause, i + 1, ScanStep(st, Char(clause, i)))

SplitColumns(clause) == ScanFinish(ScanFrom(clause, 1, ScanStart))

-----------------------------------------------------------------------------
(* More of str and re, for parse_columns and infer_column_type.             *)

\* sep.join(parts)
RECURSIVE JoinWith(_, _)
JoinWith(parts, sep) ==
    IF Len(parts) = 0 THEN ""
    ELSE IF Len(parts) = 1 THEN parts[1]
    ELSE parts[1] \o sep \o JoinWith(Tail(parts), sep)

\* `sub in s`
Contains(s, sub) == \E i \in 1..(Len(s) - Len(sub) + 1) : StartsAt(s, i, sub)

\* str.split(): the maximal runs of characters that are no whitespace.
RECURSIVE SplitFrom(_, _, _)
SplitFrom(s, i, part) ==
    IF i > Len(s) THEN (IF part = "" THEN <<>> ELSE <<part>>)
    ELSE IF IsSpace(Char(s, i))
         THEN (IF part = "" THEN <<>> ELSE <<part>>) \o SplitFrom(s, i + 1, "")
    ELSE SplitFrom(s, i + 1, part \o Char(s, i))

Split(s) == SplitFrom(s, 1, "")

\* str.strip(chars): the leading and trailing characters of `chars` removed.
StripChars(s, chars) ==
    LET keep == {i \in 1..Len(s) : Char(s, i) \notin chars}
    IN  IF keep = {} THEN "" ELSE SubSeq(s, SetMin(keep), SetMax(keep))

\* str.rstrip(chars)
RStripChars(s, chars) ==
    LET keep == {i \in 1..Len(s) : Char(s, i) \notin chars}
    IN  IF keep = {} THEN "" ELSE SubSeq(s, 1, SetMax(keep))

\* s.split('.')[-1]: the text after the last dot.
AfterLastDot(s) ==
    LET dots == {i \in 1..Len(s) : Char(s, i) = "."}
    IN  IF dots = {} THEN s ELSE SubSeq(s, SetMax(dots) + 1, Len(s))

\* The end of the maximal run of word characters that starts at i (\w+).
WordRunEnd(s, i) ==
    LET stop == {j \in i..Len(s) : ~IsWordChar(Char(s, j))}
    IN  IF stop = {} THEN Len(s) ELSE SetMin(stop) - 1

IsDigits(s) == s # "" /\ \A i \in 1..Len(s) : Char(s, i) \in CharsOf(Digits)

-----------------------------------------------------------------------------
(* SQLProcessor.infer_column_type                                           *)

\* SQL_TYPE_MAPPING, in the insertion order the dict is iterated in.
SQL_TYPE_MAPPING == <<
    [category |-> "integer", types |-> {"int", "integer", "smallint", "bigint", "tinyint"}],
    [category |-> "decimal", types |-> {"decimal", "numeric", "float", "double", "real"}],
    [category |-> "string",  types |-> {"varchar", "char", "text", "string", "nvarchar", "nchar"}],
    [category |-> "date",    types |-> {"date", "datetime", "timestamp", "time"}],
    [category |-> "boolean", types |-> {"boolean", "bool"}],
    [category |-> "binary",  types |-> {"binary", "varbinary", "blob"}] >>

\* re.search(name + r"\s*\(", s): the name, whitespace or none, a parenthesis.
CallsFunction(s, name) ==
    \E i \in 1..Len(s) :
        StartsAt(s, i, name) /\ Char(s, SkipSpaces(s, i + Len(name))) = "("

\* ^\s*\d+\s*$
IsIntegerLiteral(s) == IsDigits(Strip(s))

\* ^\s*\d+\.\d+\s*$
IsDecimalLiteral(s) ==
    LET t == Strip(s) IN
    \E d \in 1..Len(t) :
        Char(t, d) = "." /\ IsDigits(SubSeq(t, 1, d - 1)) /\ IsDigits(SubSeq(t, d + 1, Len(t)))

\* ^\s*'.*'\s*$ : the dot matches no newline; \s* may take whitespace the
\* quotes do not enclose.
IsQuotedLiteral(s) ==
    \E i, j \in 1..Len(s) :
        /\ i < j
        /\ Char(s, i) = "'" /\ Char(s, j) = "'"
        /\ \A k \in 1..(i - 1) : IsSpace(Char(s, k))
        /\ \A k \in (j + 1)..Len(s) : IsSpace(Char(s, k))
        /\ \A k \in (i + 1)..(j - 1) : Char(s, k) # "\n"

\* cast\s*\(.+\s+as\s+(\w+) at the "cast" that starts at c: the set of the
\* indices where "as" can stand.  The greedy .+ takes the last of them.
CastAsPlaces(s, c) ==
    LET paren == SkipSpaces(s, c + 4) IN
    IF ~(StartsAt(s, c, "cast") /\ paren <= Len(s) /\ Char(s, paren) = "(") THEN {}
    ELSE {a \in (paren + 3)..(Len(s) - 3) :
            /\ StartsAt(s, a, "as")
            /\ IsSpace(Char(s, a - 1))
            /\ IsSpace(Char(s, a + 2))
            /\ SkipSpaces(s, a + 2) <= Len(s)
            /\ IsWordChar(Char(s, SkipSpaces(s, a + 2)))
            \* .+ is paren+1..e and \s+ is e+1..a-1, for some e
            /\ \E e \in (paren + 1)..(a - 2) :
                  /\ \A k \in (paren + 1)..e : Char(s, k) # "\n"
                  /\ \A k \in (e + 1)..(a - 1) : IsSpace(Char(s, k))}

\* type_match.group(1) of the leftmost match, None when there is no match.
CastType(s) ==
    LET starts == {c \in 1..Len(s) : CastAsPlaces(s, c) # {}} IN
    IF starts = {} THEN None
    ELSE LET a == SetMax(CastAsPlaces(s, SetMin(starts)))
             w == SkipSpaces(s, a + 2)
         IN  SubSeq(s, w, WordRunEnd(s, w))

\* for category, types in SQL_TYPE_MAPPING.items(): the first category one of
\* whose type names occurs in cast_type; "unknown" when none does.
RECURSIVE CastCategory(_, _)
CastCategory(cast_type, n) ==
    IF n > Len(SQL_TYPE_MAPPING) THEN "unknown"
    ELSE IF \E t \in SQL_TYPE_MAPPING[n].types : Contains(cast_type, t)
         THEN SQL_TYPE_MAPPING[n].category
    ELSE CastCategory(cast_type, n + 1)

DateFunctions == {"date", "current_date", "getdate", "now"}
StringFunctions == {"concat", "substring", "trim", "lower", "upper"}

infer_column_type(column_expr) ==
    LET expr_lower == Lower(column_expr) IN
    IF IsIntegerLiteral(column_expr) THEN "integer"
    ELSE IF IsDecimalLiteral(column_expr) THEN "decimal"
    ELSE IF IsQuotedLiteral(column_expr) THEN "string"
    ELSE IF CallsFunction(expr_lower, "count") THEN "integer"
    ELSE IF CallsFunction(expr_lower, "sum") THEN "decimal"
    ELSE IF CallsFunction(expr_lower, "avg") THEN "decimal"
    ELSE IF CallsFunction(expr_lower, "min") \/ CallsFunction(expr_lower, "max") THEN "unknown"
    ELSE IF \E func \in DateFunctions : Contains(expr_lower, func) THEN "date"
    ELSE IF \E func \in StringFunctions : Contains(expr_lower, func) THEN "string"
    ELSE IF CastType(expr_lower) # None THEN CastCategory(CastType(expr_lower), 1)
    ELSE "unknown"

\* are_types_compatible
are_types_compatible(type1, type2) ==
    \/ type1 = type2
    \/ type1 = "unknown" \/ type2 = "unknown"
    \/ type1 \in {"integer", "decimal"} /\ type2 \in {"integer", "decimal"}
    \/ type1 \in {"string", "date"} /\ type2 \in {"string", "date"}

-----------------------------------------------------------------------------
(* SQLProcessor.parse_columns                                               *)

\* The keywords sqlparse.format(keyword_case='upper') writes in upper case and
\* those reindent=True starts a new line at.
SqlKeywords ==
    {"SELECT", "FROM", "AS", "WHERE", "AND", "OR", "NULL", "UPDATE", "SET", "UNION", "ALL",
     "DISTINCT", "JOIN", "ON", "HAVING", "LIMIT"}
SqlLineKeywords == {"FROM", "WHERE", "SET", "UNION", "JOIN", "HAVING", "LIMIT", "AND", "OR"}

\* The column the identifiers of "SELECT a, b" are aligned at.
SqlIndent == "       "

\* The word that starts at i: the run of word characters there.
WordFrom(s, i) == SubSeq(s, i, WordRunEnd(s, i))

\* sqlparse.format(query, keyword_case='upper', reindent=True) on the
\* statements of the model: outside quoted literals a keyword is written in
\* upper case, a run of whitespace becomes one space, or a line break when a
\* line keyword follows at depth 0, and the identifier after a comma at depth
\* 0 goes to a new, aligned line.  st is [depth, quoted].
RECURSIVE FormatFrom(_, _, _)
FormatFrom(s, i, st) ==
    IF i > Len(s) THEN ""
    ELSE LET char == Char(s, i) IN
    IF st.quoted THEN char \o FormatFrom(s, i + 1, [st EXCEPT !.quoted = (char # "'")])
    ELSE IF char = "'" THEN char \o FormatFrom(s, i + 1, [st EXCEPT !.quoted = TRUE])
    ELSE IF char = "(" THEN char \o FormatFrom(s, i + 1, [st EXCEPT !.depth = @ + 1])
    ELSE IF char = ")" THEN char \o FormatFrom(s, i + 1, [st EXCEPT !.depth = @ - 1])
    ELSE IF char = "," /\ st.depth = 0
         THEN LET j == SkipSpaces(s, i + 1)
              IN  IF j > Len(s) THEN ","
                  ELSE ",\n" \o SqlIndent \o FormatFrom(s, j, st)
    ELSE IF IsSpace(char)
         THEN LET j == SkipSpaces(s, i)
              IN  IF j > Len(s) THEN ""
                  ELSE IF st.depth = 0 /\ Upper(WordFrom(s, j)) \in SqlLineKeywords
                       THEN "\n" \o FormatFrom(s, j, st)
                  ELSE " " \o FormatFrom(s, j, st)
    ELSE IF IsWordChar(char)
         THEN LET word == WordFrom(s, i)
              IN  (IF Upper(word) \in SqlKeywords THEN Upper(word) ELSE word)
                      \o FormatFrom(s, i + Len(word), st)
    ELSE char \o FormatFrom(s, i + 1, st)

sqlparse_format(query) == FormatFrom(Strip(query), 1, [depth |-> 0, quoted |-> FALSE])

\* re.search(r"SELECT\s+(.+?)\s+FROM", query, re.DOTALL | re.IGNORECASE) for the
\* SELECT at i: the pairs <<j, k>> such that the group can be query[j..k].
SelectGroups(query, i) ==
    IF ~(WordAt(query, i, "SELECT") /\ IsSpace(Char(query, i + 6))) THEN {}
    ELSE {jk \in ((i + 7)..SkipSpaces(query, i + 6)) \X ((i + 7)..Len(query)) :
            /\ jk[1] <= jk[2]
            /\ IsSpace(Char(query, jk[2] + 1))
            /\ WordAt(query, SkipSpaces(query, jk[2] + 1), "FROM")}

\* select_match.group(1): of the leftmost SELECT that matches, the group the
\* greedy \s+ and the lazy .+? settle on (the latest start, then the
\* earliest end); None when nothing matches.
SelectClause(query) ==
    LET starts == {i \in 1..Len(query) : SelectGroups(query, i) # {}} IN
    IF starts = {} THEN None
    ELSE LET groups == SelectGroups(query, SetMin(starts))
             j == SetMax({jk[1] : jk \in groups})
             k == SetMin({jk[2] : jk \in {g \in groups : g[1] = j}})
         IN  SubSeq(query, j, k)

\* The characters strip('"`') removes.  The backtick cannot be written in a
\* string of this module: the model has no text with one.
AliasQuotes == {"\""}

\* re.search(r"\s+AS\s+([^\s,]+)$", col, re.IGNORECASE): the index of the AS
\* of the match, 0 when there is none.  The group is the last run of
\* characters that are neither whitespace nor a comma, up to the end.
AliasAsIndex(col) ==
    LET spaces == {i \in 1..Len(col) : IsSpace(Char(col, i))}
        last == IF spaces = {} THEN 0 ELSE SetMax(spaces)
        asEnd == IF last = 0 THEN 0
                 ELSE SetMax({0} \cup {i \in 1..last : ~IsSpace(Char(col, i))})
    IN  IF /\ last > 0 /\ last < Len(col)
           /\ ~Contains(SubSeq(col, last + 1, Len(col)), ",")
           /\ asEnd >= 3
           /\ WordAt(col, asEnd - 1, "AS")
           /\ IsSpace(Char(col, asEnd - 2))
        THEN asEnd - 1 ELSE 0

\* Lines 175-189: the (column, alias) of one fragment.
ResolveAlias(col) ==
    LET a == AliasAsIndex(col)
        parts == Split(col)
    IN  IF a > 0
        THEN \* alias_match.start() is where the whitespace before AS begins
             LET before == SetMax({0} \cup {i \in 1..(a - 1) : ~IsSpace(Char(col, i))})
             IN  [column |-> Strip(SubSeq(col, 1, before)),
                  alias |-> StripChars(parts[Len(parts)], AliasQuotes)]
        ELSE IF Len(parts) > 1 /\ ~Contains(parts[Len(parts)], "(") /\ ~Contains(parts[Len(parts)], ")")
        THEN [column |-> Strip(JoinWith(SubSeq(parts, 1, Len(parts) - 1), " ")),
              alias |-> StripChars(parts[Len(parts)], AliasQuotes)]
        ELSE LET column == Strip(col)
             IN  [column |-> column,
                  alias |-> IF Contains(column, ".") /\ ~Contains(column, "(")
                            THEN StripChars(AfterLastDot(column), AliasQuotes)
                            ELSE StripChars(column, AliasQuotes)]

\* Lines 174-192: (column, alias, inferred_type) for every fragment.
ColumnOf(col) ==
    LET r == ResolveAlias(col)
    IN  [column |-> r.column, alias |-> r.alias, type |-> infer_column_type(r.column)]

\* The list '*' in select_clause makes parse_columns return.
WildcardColumns == <<[column |-> "*", alias |-> "*", type |-> "unknown"]>>

HasWildcard(clause) == Contains(Strip(clause), "*")

\* What parse_columns hands to logger: "error" when no SELECT ... FROM is
\* found, "warning" for a wildcard, nothing otherwise.
parse_columns_log(query) ==
    LET clause == SelectClause(sqlparse_format(query)) IN
    IF clause = None THEN <<"error">>
    ELSE IF HasWildcard(clause) THEN <<"warning">>
    ELSE <<>>

parse_columns(query) ==
    LET clause == SelectClause(sqlparse_format(query)) IN
    IF clause = None THEN <<>>
    ELSE IF HasWildcard(clause) THEN WildcardColumns
    ELSE LET cols == SplitColumns(clause)
         IN  [n \in 1..Len(cols) |-> ColumnOf(cols[n])]

-----------------------------------------------------------------------------
(* SQLProcessor.check_type_compatibility and SQLProcessor.unify_queries     *)

\* The characters of the model's texts in code point order: what sorted()
\* compares strings by.
CodePoints ==
    "\t\n !\"#$%&'()*+,-./0123456789:;<=>?@ABCDEFGHIJKLMNOPQRSTUVWXYZ[\\]^_abcdefghijklmnopqrstuvwxyz{|}~"
CodeOf == [c \in CharsOf(CodePoints) |-> CHOOSE i \in 1..Len(CodePoints) : Char(CodePoints, i) = c]

\* a < b for Python strings
RECURSIVE StrLess(_, _)
StrLess(a, b) ==
    IF b = "" THEN FALSE
    ELSE IF a = "" THEN TRUE
    ELSE IF Char(a, 1) = Char(b, 1) THEN StrLess(Tail(a), Tail(b))
    ELSE CodeOf[Char(a, 1)] < CodeOf[Char(b, 1)]

\* sorted(S) for a set of strings
RECURSIVE Sorted(_)
Sorted(S) ==
    IF S = {} THEN <<>>
    ELSE LET least == CHOOSE x \in S : \A y \in S \ {x} : StrLess(x, y)
         IN  <<least>> \o Sorted(S \ {least})

\* str(n) for n >= 0
RECURSIVE IntToStr(_)
IntToStr(n) ==
    IF n < 10 THEN Char(Digits, n + 1)
    ELSE IntToStr(n \div 10) \o Char(Digits, (n % 10) + 1)

\* Lines 290-295: alias_to_types.  The aliases in the order of their first
\* appearance, and for an alias its (query_idx, inferred_type) pairs in order.
RECURSIVE AliasesInOrder(_, _, _)
AliasesInOrder(column_sets, q, c) ==
    IF q > Len(column_sets) THEN <<>>
    ELSE IF c > Len(column_sets[q]) THEN AliasesInOrder(column_sets, q + 1, 1)
    ELSE LET alias == column_sets[q][c].alias
             rest == AliasesInOrder(column_sets, q, c + 1)
         IN  <<alias>> \o SelectSeq(rest, LAMBDA x : x # alias)

RECURSIVE TypeInfo(_, _, _, _)
TypeInfo(column_sets, alias, q, c) ==
    IF q > Len(column_sets) THEN <<>>
    ELSE IF c > Len(column_sets[q]) THEN TypeInfo(column_sets, alias, q + 1, 1)
    ELSE (IF column_sets[q][c].alias = alias
          THEN <<[query_idx |-> q - 1, type |-> column_sets[q][c].type]>>
          ELSE <<>>) \o TypeInfo(column_sets, alias, q, c + 1)

\* Lines 307-314: the warnings of one alias, for i and then j > i in order.
\* A warning is the record of what its text names: the alias, the two
\* ordinals (query_indices + 1) and the two types.
RECURSIVE PairWarnings(_, _, _, _)
PairWarnings(alias, info, i, j) ==
    IF i > Len(info) THEN <<>>
    ELSE IF j > Len(info) THEN PairWarnings(alias, info, i + 1, i + 2)
    ELSE (IF ~are_types_compatible(info[i].type, info[j].type)
          THEN <<[alias |-> alias,
                  query1 |-> info[i].query_idx + 1, type1 |-> info[i].type,
                  query2 |-> info[j].query_idx + 1, type2 |-> info[j].type]>>
          ELSE <<>>) \o PairWarnings(alias, info, i, j + 1)

RECURSIVE AliasWarnings(_, _, _)
AliasWarnings(column_sets, aliases, n) ==
    IF n > Len(aliases) THEN <<>>
    ELSE LET info == TypeInfo(column_sets, aliases[n], 1, 1)
         IN  (IF Len(info) <= 1 THEN <<>> ELSE PairWarnings(aliases[n], info, 1, 2))
                 \o AliasWarnings(column_sets, aliases, n + 1)

check_type_compatibility(column_sets) ==
    AliasWarnings(column_sets, AliasesInOrder(column_sets, 1, 1), 1)

\* Lines 335-338: all_aliases
AllAliases(column_sets) ==
    UNION {{column_sets[q][c].alias : c \in 1..Len(column_sets[q])} :
              q \in 1..Len(column_sets)}

\* Line 348: column_dict[alias] is the column of the last entry with the alias.
ColumnDictHas(cols, alias) == \E c \in 1..Len(cols) : cols[c].alias = alias
ColumnDictCol(cols, alias) ==
    cols[SetMax({c \in 1..Len(cols) : cols[c].alias = alias})].column

\* Lines 349-355: the entry of a branch for one alias of the union.
UnionEntry(cols, alias) ==
    IF ColumnDictHas(cols, alias) THEN ColumnDictCol(cols, alias)
    ELSE "NULL AS " \o alias

\* The branch with no placeholder for the aliases the source lacks.
UnionColumnsWithoutPlaceholders(cols, aliases) ==
    LET order == Sorted({alias \in aliases : ColumnDictHas(cols, alias)})
    IN  [n \in 1..Len(order) |-> UnionEntry(cols, order[n])]

\* Lines 349-355: union_columns of the branch of one source.
UnionColumns(cols, aliases) ==
    LET order == Sorted(aliases) IN [n \in 1..Len(order) |-> UnionEntry(cols, order[n])]

\* The name with the 0-based index of enumerate() left as it is.
CteNameZeroBased(query_idx) == "cte" \o IntToStr(query_idx)

\* Line 344
CteName(query_idx) == "cte" \o IntToStr(query_idx + 1)

\* Lines 345-346
CteOf(fixed_query, query_idx) ==
    CteName(query_idx) \o " AS (\n  " \o RStripChars(fixed_query, {";"}) \o "\n)"

\* Line 356
UnionQuery(union_cols, query_idx) ==
    "SELECT " \o JoinWith(union_cols, ", ") \o " FROM " \o CteName(query_idx)

\* Lines 358-364
FinalQuery(cte_list, union_list) ==
    "WITH " \o JoinWith(cte_list, ",\n") \o "\n"
        \o "-- Query final unificada\n"
        \o "SELECT * FROM (\n" \o JoinWith(union_list, "\nUNION ALL\n") \o "\n) AS unified_result;"

\* fixed_queries, line 322
FixedQueries(query_list) ==
    [n \in 1..Len(query_list) |-> fix_simple_syntax_errors(query_list[n])]

\* all_column_sets, lines 325-329: the columns of every fixed query, in order.
ColumnSets(fixed_queries) ==
    [n \in 1..Len(fixed_queries) |-> parse_columns(fixed_queries[n])]

\* The warnings and errors logged while the queries are parsed, each with
\* the ordinal of the query parse_columns was called for.
RECURSIVE ParseLog(_, _)
ParseLog(fixed_queries, n) ==
    IF n > Len(fixed_queries) THEN <<>>
    ELSE LET levels == parse_columns_log(fixed_queries[n])
         IN  [k \in 1..Len(levels) |-> [level |-> levels[k], query |-> n]]
                 \o ParseLog(fixed_queries, n + 1)

\* Lines 323-365, from fixed_queries and all_column_sets on.
UnifyFixed(fixed_queries, sets) ==
    LET aliases == AllAliases(sets)
        cte_list == [n \in 1..Len(sets) |-> CteOf(fixed_queries[n], n - 1)]
        cols_list == [n \in 1..Len(sets) |-> UnionColumns(sets[n], aliases)]
        union_list == [n \in 1..Len(sets) |-> UnionQuery(cols_list[n], n - 1)]
    IN  [all_column_sets |-> sets, all_aliases |-> aliases, ctes |-> cte_list,
         union_columns |-> cols_list, union_queries |-> union_list,
         final_query |-> FinalQuery(cte_list, union_list),
         type_warnings |-> <<>> \o check_type_compatibility(sets),
         log |-> ParseLog(fixed_queries, 1)]

\* unify_queries(queries) on a processor whose type_warnings is `warnings`:
\* the locals at the return, the value returned and self.type_warnings.
unify_queries(query_list, warnings) ==
    IF Len(query_list) = 0
    THEN [all_column_sets |-> <<>>, all_aliases |-> {}, ctes |-> <<>>,
          union_columns |-> <<>>, union_queries |-> <<>>, final_query |-> "",
          type_warnings |-> warnings, log |-> <<>>]
    ELSE LET fixed_queries == FixedQueries(query_list)
             sets == ColumnSets(fixed_queries)
         IN  UnifyFixed(fixed_queries, sets)

-----------------------------------------------------------------------------
(* The texts fix_simple_syntax_errors is applied to: up to MaxWords words    *)
(* joined by a separator and followed by a tail.                            *)

MaxWords == 3

NormWords == {"SELETC", "XSELETC", "SELETCX", "FORM", "FROM", "from", "JOIN", "id"}
NormSeparators == {" ", " \n "}
NormTails == {"", ";", ";;", "; ;", " "}

\* The lists of at most n elements of S.
SeqsUpTo(S, n) == UNION {[1..k -> S] : k \in 0..n}

NormInputs ==
    {JoinWith(ws, sep) \o tail :
        ws \in SeqsUpTo(NormWords, MaxWords), sep \in NormSeparators, tail \in NormTails}

NormIdle == norm_query = "" /\ norm_result = None /\ norm_again = None
ScanIdle ==
    /\ select_clause = "" /\ scan_pos = 0 /\ current_col = "" /\ parenthesis_count = 0
    /\ in_quotes = FALSE /\ columns = <<>> /\ scan_pc = "idle"
ParseIdle == parse_query = "" /\ parse_result = <<>> /\ parse_pc = "idle"
InferIdle == infer_expr = "" /\ infer_type = None
CompatIdle == compat_sets = <<>> /\ compat_warnings = <<>> /\ compat_pc = "idle"
FusionIdle ==
    /\ table_names = <<>> /\ schemas = <<>> /\ column_types = <<>> /\ all_columns = {}
    /\ column_final_types = <<>> /\ final_column_parts = <<>> /\ cte_statements = <<>>
    /\ joins = <<>> /\ unified_query = None /\ fusion_pc = "idle"
PipeIdle ==
    /\ athena_client = None /\ raw_table_names = <<>> /\ table_index = 0
    /\ stages = <<>> /\ started_queries = 0 /\ outcomes = <<>> /\ authenticated = None
WaitIdle ==
    /\ wait_state = None /\ wait_retries = 0 /\ wait_polls = 0 /\ wait_observed = None
    /\ wait_result = None /\ wait_pc = "idle"
MainIdle == main_pc = "idle" /\ issue_comments = <<>>
SaveIdle ==
    /\ save_pc = "idle" /\ save_query = None /\ save_calls = 0 /\ save_trace = <<>>
    /\ gh_branch = FALSE /\ gh_file = None /\ gh_open_pulls = 0
    /\ branch_creations = 0 /\ file_creations = 0 /\ pull_creations = 0
ModularIdle ==
    /\ pipeline_pc = "idle" /\ pipeline_config = <<>> /\ processed_table_names = <<>>
    /\ table_schemas = <<>> /\ athena_state = None /\ pipeline_result = None
HubIdle == MainIdle /\ SaveIdle /\ ModularIdle
ExtIdle == PipeIdle /\ WaitIdle /\ HubIdle
RestIdle == InferIdle /\ CompatIdle /\ FusionIdle /\ ExtIdle
UnifyIdle ==
    /\ queries = <<>> /\ all_column_sets = <<>> /\ all_aliases = {} /\ ctes = <<>>
    /\ union_columns = <<>> /\ union_queries = <<>> /\ final_query = None
    /\ type_warnings = <<>> /\ log = <<>> /\ unify_pc = "idle"
ProcIdle == NormIdle /\ ScanIdle /\ ParseIdle /\ InferIdle /\ CompatIdle
AthenaIdle == FusionIdle /\ PipeIdle /\ WaitIdle
SqlIdle == ProcIdle /\ UnifyIdle /\ HubIdle

InitNormalize ==
    /\ norm_query \in NormInputs
    /\ norm_result = None
    /\ norm_again = None
    /\ ScanIdle /\ ParseIdle /\ UnifyIdle /\ RestIdle

\* main, line 487: fixed_query = processor.fix_simple_syntax_errors(query)
FixSyntax ==
    /\ norm_result = None
    /\ norm_result' = fix_simple_syntax_errors(norm_query)
    /\ UNCHANGED <<norm_query, norm_again, scanVars, parseVars, unifyVars, restVars>>

\* the normalizer applied to its own output
FixSyntaxAgain ==
    /\ norm_result # None
    /\ norm_again = None
    /\ norm_again' = fix_simple_syntax_errors(norm_result)
    /\ UNCHANGED <<norm_query, norm_result, scanVars, parseVars, unifyVars, restVars>>

NextNormalize == FixSyntax \/ FixSyntaxAgain

SpecNormalize == InitNormalize /\ [][NextNormalize]_vars

-----------------------------------------------------------------------------
(* Claims about fix_simple_syntax_errors                                    *)

\* C5: fix_simple_syntax_errors is idempotent: applied to its own output it
\* returns that output unchanged, also for three repeated keywords.
C5_Idempotent == norm_again # None => norm_again = norm_result

\* The maximal runs of word characters of a text, in order.
RECURSIVE WordsFrom(_, _, _)
WordsFrom(s, i, word) ==
    IF i > Len(s) THEN (IF word = "" THEN <<>> ELSE <<word>>)
    ELSE IF IsWordChar(Char(s, i)) THEN WordsFrom(s, i + 1, word \o Char(s, i))
    ELSE (IF word = "" THEN <<>> ELSE <<word>>) \o WordsFrom(s, i + 1, "")

WordsOf(s) == WordsFrom(s, 1, "")

\* The one-word misspellings of the table and what a whole word becomes.
OneWordMistakes == {n \in 1..Len(common_mistakes) : common_mistakes[n].second = ""}
Corrected(word) ==
    IF \E n \in OneWordMistakes : common_mistakes[n].first = Upper(word)
    THEN common_mistakes[CHOOSE n \in OneWordMistakes : common_mistakes[n].first = Upper(word)].correction
    ELSE word

\* No entry of two words (a repeated keyword) applies to the text.
NoRepeatedKeyword(s) ==
    \A i \in 1..(Len(WordsOf(s)) - 1) : Upper(WordsOf(s)[i]) # Upper(WordsOf(s)[i + 1])

\* C6: a misspelling is replaced only as a whole word: every word of the
\* input that is a misspelling of the table becomes its correction and every
\* other word (XSELETC, SELETCX, FORM) is left as it is.
C6_WholeWordOnly ==
    (norm_result # None /\ NoRepeatedKeyword(norm_query)) =>
        WordsOf(norm_result) =
            [i \in 1..Len(WordsOf(norm_query)) |-> Corrected(WordsOf(norm_query)[i])]

\* The number of terminators in the trailing run of terminators and whitespace.
RECURSIVE TrailingTerminators(_)
TrailingTerminators(s) ==
    IF s = "" THEN 0
    ELSE LET last == Char(s, Len(s))
             rest == SubSeq(s, 1, Len(s) - 1)
         IN  IF last = ";" THEN 1 + TrailingTerminators(rest)
             ELSE IF IsSpace(last) THEN TrailingTerminators(rest)
             ELSE 0

\* C7: the output of fix_simple_syntax_errors ends with exactly one
\* statement terminator, whatever the input ends with.
C7_ExactlyOneTerminator == norm_result # None => TrailingTerminators(norm_result) = 1

-----------------------------------------------------------------------------
(* The scanner of parse_columns, one loop iteration per step, over the      *)
(* projection lists of up to MaxClauseLen characters.  The group captured   *)
(* by SELECT\s+(.+?)\s+FROM is not empty and neither starts nor ends with   *)
(* whitespace.                                                              *)

MaxClauseLen == 5

ScanAlphabet == {"a", ",", "(", ")", "'", " "}

ScanInputs ==
    {c \in {JoinWith(cs, "") : cs \in UNION {[1..k -> ScanAlphabet] : k \in 1..MaxClauseLen}} :
        ~IsSpace(Char(c, 1)) /\ ~IsSpace(Char(c, Len(c)))}

InitScan ==
    /\ select_clause \in ScanInputs
    /\ scan_pos = 1
    /\ current_col = ""
    /\ parenthesis_count = 0
    /\ in_quotes = FALSE
    /\ columns = <<>>
    /\ scan_pc = "loop"
    /\ NormIdle /\ ParseIdle /\ UnifyIdle /\ RestIdle

ScanState ==
    [current_col |-> current_col, parenthesis_count |-> parenthesis_count,
     in_quotes |-> in_quotes, columns |-> columns]

\* The character at scan_pos takes `branch` of the chain.
ScanTakes(branch) ==
    /\ scan_pc = "loop"
    /\ scan_pos <= Len(select_clause)
    /\ ScanBranch(ScanState, Char(select_clause, scan_pos)) = branch

\* The iteration for the character at scan_pos.
ScanIterate ==
    /\ LET st == ScanStep(ScanState, Char(select_clause, scan_pos)) IN
        /\ current_col' = st.current_col
        /\ parenthesis_count' = st.parenthesis_count
        /\ in_quotes' = st.in_quotes
        /\ columns' = st.columns
    /\ scan_pos' = scan_pos + 1
    /\ UNCHANGED <<select_clause, scan_pc, normVars, parseVars, unifyVars, restVars>>

ScanOpenQuote ==
    /\ ScanTakes("open_quote")
    /\ ScanIterate

ScanCloseQuote ==
    /\ ScanTakes("close_quote")
    /\ ScanIterate

ScanOpenParen ==
    /\ ScanTakes("open_paren")
    /\ ScanIterate

ScanCloseParen ==
    /\ ScanTakes("close_paren")
    /\ ScanIterate

ScanComma ==
    /\ ScanTakes("comma")
    /\ ScanIterate

ScanOther ==
    /\ ScanTakes("other")
    /\ ScanIterate

\* Lines 168-169, after the loop.
ScanLast ==
    /\ scan_pc = "loop"
    /\ scan_pos > Len(select_clause)
    /\ columns' = ScanFinish(ScanState)
    /\ scan_pc' = "done"
    /\ UNCHANGED <<select_clause, scan_pos, current_col, parenthesis_count, in_quotes,
                   normVars, parseVars, unifyVars, restVars>>

NextScan ==
    \/ ScanOpenQuote
    \/ ScanCloseQuote
    \/ ScanOpenParen
    \/ ScanCloseParen
    \/ ScanComma
    \/ ScanOther
    \/ ScanLast

SpecScan == InitScan /\ [][NextScan]_vars

-----------------------------------------------------------------------------
(* Claims about the scanner                                                 *)

\* The character at i lies inside a single-quoted literal: an odd number of
\* quotes stands before it.
Quoted(s, i) == Cardinality({j \in 1..(i - 1) : Char(s, j) = "'"}) % 2 = 1

\* The parentheses open before i: those opened less those closed, outside quotes.
DepthBefore(s, i) ==
    Cardinality({j \in 1..(i - 1) : Char(s, j) = "(" /\ ~Quoted(s, j)})
        - Cardinality({j \in 1..(i - 1) : Char(s, j) = ")" /\ ~Quoted(s, j)})

\* The commas at depth 0 outside quotes.
Separators(s) == {i \in 1..Len(s) : Char(s, i) = "," /\ ~Quoted(s, i) /\ DepthBefore(s, i) = 0}

\* The text between the separators before and after index i (i itself a
\* separator or 0), trimmed.
FragmentAfter(s, i) ==
    LET later == {j \in Separators(s) : j > i}
        stop == IF later = {} THEN Len(s) + 1 ELSE SetMin(later)
    IN  Strip(SubSeq(s, i + 1, stop - 1))

\* The fragments in source order; the one after the last separator is kept
\* unless it trims to nothing.
RECURSIVE FragmentsFrom(_, _)
FragmentsFrom(s, i) ==
    LET later == {j \in Separators(s) : j > i}
    IN  IF later = {}
        THEN (IF FragmentAfter(s, i) = "" THEN <<>> ELSE <<FragmentAfter(s, i)>>)
        ELSE <<FragmentAfter(s, i)>> \o FragmentsFrom(s, SetMin(later))

\* C10: the scanner ends a fragment exactly at each comma at parenthesis
\* depth 0 outside single quotes; quoted characters and commas never change
\* the depth counter; the fragments come in source order.
C10_ScannerSplits ==
    /\ scan_pc = "loop" =>
          /\ in_quotes = Quoted(select_clause, scan_pos)
          /\ parenthesis_count = DepthBefore(select_clause, scan_pos)
          /\ Len(columns) = Cardinality({i \in Separators(select_clause) : i < scan_pos})
    /\ scan_pc = "done" => columns = FragmentsFrom(select_clause, 0)

\* A scan that met a comma inside a quoted literal, a comma inside
\* parentheses and a separator, and is done.
C10_Witness ==
    /\ scan_pc = "done"
    /\ Len(columns) >= 2
    /\ \E i \in 1..Len(select_clause) :
          Char(select_clause, i) = "," /\ Quoted(select_clause, i)
    /\ \E i \in 1..Len(select_clause) :
          Char(select_clause, i) = "," /\ ~Quoted(select_clause, i)
              /\ DepthBefore(select_clause, i) > 0

-----------------------------------------------------------------------------
(* parse_columns applied as main applies it (lines 487-488), to statements  *)
(* that select up to MaxColumns fragments and to one that selects nothing.  *)

MaxColumns == 2

ParseFragments ==
    {"*", "t.*", "COUNT(*) AS n", "a * b AS p", "a", "t.a", "b AS bb", "x y",
     "CAST(x AS int)", "'p,q' s", "1", "1.5", "update_id", "SUM(a) total", "f(a, b)", ""}

SelectOf(fragments, table) == "SELECT " \o JoinWith(fragments, ", ") \o " FROM " \o table

ParseInputs ==
    {SelectOf(fs, "t1") : fs \in SeqsUpTo(ParseFragments, MaxColumns)}
        \cup {"UPDATE t1 SET x = 1", "select a as k from t1"}

InitParse ==
    /\ parse_query \in ParseInputs
    /\ parse_result = <<>>
    /\ parse_pc = "call"
    /\ NormIdle /\ ScanIdle /\ UnifyIdle /\ RestIdle

\* main, lines 487-488
ParseColumns ==
    /\ parse_pc = "call"
    /\ parse_result' = parse_columns(fix_simple_syntax_errors(parse_query))
    /\ parse_pc' = "done"
    /\ UNCHANGED <<parse_query, normVars, scanVars, unifyVars, restVars>>

NextParse == ParseColumns

SpecParse == InitParse /\ [][NextParse]_vars

-----------------------------------------------------------------------------
(* Claims about parse_columns                                               *)

\* The projection list parse_columns looks at.
ProjectionOf(query) == SelectClause(sqlparse_format(fix_simple_syntax_errors(query)))

\* The trimmed projection list is `*` or `<name>.*`.
IsExactlyStar(clause) ==
    LET t == Strip(clause) IN
    \/ t = "*"
    \/ /\ Len(t) >= 3
       /\ SubSeq(t, Len(t) - 1, Len(t)) = ".*"
       /\ \A i \in 1..(Len(t) - 2) : IsWordChar(Char(t, i))

\* C9: parse_columns returns the wildcard marker if and only if the trimmed
\* projection list is exactly `*`, optionally table-qualified; an asterisk
\* inside an expression is parsed as an ordinary column.
C9_WildcardOnlyForStar ==
    (parse_pc = "done" /\ ProjectionOf(parse_query) # None) =>
        (parse_result = WildcardColumns <=> IsExactlyStar(ProjectionOf(parse_query)))

-----------------------------------------------------------------------------
(* unify_queries called again and again on one SQLProcessor, with lists of  *)
(* up to MaxQueries statements.                                             *)

MaxQueries == 2

UnifyTexts ==
    {"SELECT a, b AS bb FROM t1",
     "SELECT a, c AS cc FROM t2",
     "SELECT * FROM t1",
     "SELECT x FROM t2",
     "UPDATE t1 SET x = 1",
     "SELECT 'n' AS a, 1 AS x FROM t3",
     "SELECT 1 AS a, a FROM t4"}

UnifyInputs == SeqsUpTo(UnifyTexts, MaxQueries)

\* SQLProcessor.__init__ (line 62): no call made yet.
InitUnify ==
    /\ UnifyIdle
    /\ NormIdle /\ ScanIdle /\ ParseIdle /\ RestIdle

\* main, line 504: unify_queries is called with a list of queries.
CallUnify ==
    /\ unify_pc = "idle"
    /\ queries' \in UnifyInputs
    /\ unify_pc' = "call"
    /\ UNCHANGED <<all_column_sets, all_aliases, ctes, union_columns, union_queries,
                   final_query, type_warnings, log, normVars, scanVars, parseVars, restVars>>

\* unify_queries, lines 318-365, up to its return statement
UnifyQueries ==
    /\ unify_pc = "call"
    /\ \E r \in {unify_queries(queries, type_warnings)} :
        /\ all_column_sets' = r.all_column_sets
        /\ all_aliases' = r.all_aliases
        /\ ctes' = r.ctes
        /\ union_columns' = r.union_columns
        /\ union_queries' = r.union_queries
        /\ final_query' = r.final_query
        /\ type_warnings' = r.type_warnings
        /\ log' = r.log
    /\ unify_pc' = "done"
    /\ UNCHANGED <<queries, normVars, scanVars, parseVars, restVars>>

\* The call is over: its argument, its locals and the text it returned are
\* gone, the processor keeps type_warnings.
ReturnUnify ==
    /\ unify_pc = "done"
    /\ queries' = <<>>
    /\ final_query' = None
    /\ all_column_sets' = <<>> /\ all_aliases' = {} /\ ctes' = <<>>
    /\ union_columns' = <<>> /\ union_queries' = <<>> /\ log' = <<>>
    /\ unify_pc' = "idle"
    /\ UNCHANGED <<type_warnings, normVars, scanVars, parseVars, restVars>>

NextUnify == CallUnify \/ UnifyQueries \/ ReturnUnify

SpecUnify == InitUnify /\ [][NextUnify]_vars

-----------------------------------------------------------------------------
(* Claims about unify_queries                                               *)

\* The aliases of source n and the union of the aliases of all sources.
AliasesOf(n) == {all_column_sets[n][c].alias : c \in 1..Len(all_column_sets[n])}
AliasUnion == UNION {AliasesOf(n) : n \in 1..Len(all_column_sets)}

\* The place of an alias of the union in lexicographic order.
RankOf(alias) == 1 + Cardinality({other \in AliasUnion : StrLess(other, alias)})

\* Entry m of the branch of source n stands for `alias`: it is a column the
\* source gives that alias, or the placeholder when the source has none.
StandsFor(n, m, alias) ==
    IF alias \in AliasesOf(n)
    THEN \E c \in 1..Len(all_column_sets[n]) :
            /\ all_column_sets[n][c].alias = alias
            /\ all_column_sets[n][c].column = union_columns[n][m]
    ELSE union_columns[n][m] = "NULL AS " \o alias

\* C1: for N >= 2 queries every branch has exactly |AliasUnion| entries, one
\* per alias of the union, in the same lexicographic alias order.
C1_AlignedBranches ==
    (unify_pc = "done" /\ Len(queries) >= 2) =>
        /\ Len(union_columns) = Len(queries)
        /\ \A n \in 1..Len(queries) :
              /\ Len(union_columns[n]) = Cardinality(AliasUnion)
              /\ \A alias \in AliasUnion : StandsFor(n, RankOf(alias), alias)

\* Two sources with different aliases were unified: each branch holds a
\* column of its own and a placeholder.
C1_Witness ==
    /\ unify_pc = "done"
    /\ Len(queries) = 2
    /\ Cardinality(AliasUnion) = 3
    /\ \A n \in 1..2 :
          /\ \E m \in 1..3 : StartsAt(union_columns[n][m], 1, "NULL AS ")
          /\ \E m \in 1..3 : ~StartsAt(union_columns[n][m], 1, "NULL AS ")

Scenario1 == <<"SELECT a, b AS bb FROM t1", "SELECT a, c AS cc FROM t2">>

\* C2: for scenario 1 the alias union is {a, bb, cc}, the select over cte1
\* projects a, bb, NULL AS cc and the one over cte2 a, NULL AS bb, cc (own
\* columns by alias), joined with UNION ALL and wrapped as unified_result.
C2_Scenario1 ==
    (unify_pc = "done" /\ queries = Scenario1) =>
        /\ all_aliases = {"a", "bb", "cc"}
        /\ union_queries = <<"SELECT a, bb, NULL AS cc FROM cte1",
                             "SELECT a, NULL AS bb, cc FROM cte2">>
        /\ EndsWith(final_query,
              "SELECT * FROM (\n" \o union_queries[1] \o "\nUNION ALL\n" \o union_queries[2]
                  \o "\n) AS unified_result;")

\* C3: with fewer than two sources unify_queries ends in an error outcome
\* and produces no unified SQL text.
C3_InsufficientSources ==
    (unify_pc = "done" /\ Len(queries) < 2) => final_query = ""

\* C4: a wildcard source is left out of the alignment: the alias union never
\* contains `*`, no branch gets NULL AS *, and a warning is logged for it.
C4_WildcardExcluded ==
    (unify_pc = "done" /\ Len(queries) >= 2) =>
        /\ "*" \notin all_aliases
        /\ \A n \in 1..Len(union_columns) : \A m \in 1..Len(union_columns[n]) :
              union_columns[n][m] # "NULL AS *"
        /\ \A n \in 1..Len(all_column_sets) :
              all_column_sets[n] = WildcardColumns =>
                  \E k \in 1..Len(log) : log[k] = [level |-> "warning", query |-> n]

\* C8: a source with zero parsed columns is skipped: the unified text has no
\* CTE and no branch for it, and the other sources are still assembled.
C8_EmptySourceSkipped ==
    (unify_pc = "done" /\ Len(queries) >= 2) =>
        \A n \in 1..Len(all_column_sets) :
            IF Len(all_column_sets[n]) = 0
            THEN /\ ~Contains(final_query, CteName(n - 1) \o " AS (")
                 /\ ~Contains(final_query, " FROM " \o CteName(n - 1))
            ELSE /\ Contains(final_query, CteName(n - 1) \o " AS (")
                 /\ Contains(final_query, " FROM " \o CteName(n - 1))

-----------------------------------------------------------------------------
(* Claims about the fragments and aliases of parse_columns                   *)

\* C11: parse_columns drops every fragment that trims to empty text: the
\* list it returns has no column whose expression or alias is empty.
C11_NoEmptyColumn ==
    parse_pc = "done" =>
        \A n \in 1..Len(parse_result) :
            parse_result[n].column # "" /\ parse_result[n].alias # ""

\* The AS that AliasAsIndex finds in the fragment stands outside every
\* parenthesis and quoted literal: the name after it aliases the whole fragment.
AliasesWholeFragment(col) ==
    LET a == AliasAsIndex(col)
    IN  a > 0 /\ DepthBefore(col, a) = 0 /\ ~Quoted(col, a)

\* The alias derived from an expression that carries none: the last
\* dot-segment of a qualified name without parentheses, else the expression.
DerivedAlias(column) ==
    IF Contains(column, ".") /\ ~Contains(column, "(")
    THEN StripChars(AfterLastDot(column), AliasQuotes)
    ELSE StripChars(column, AliasQuotes)

\* The (column, alias) of a fragment by the three rules, in order.
AliasByRule(col) ==
    LET parts == Split(col)
        last == parts[Len(parts)]
    IN  IF AliasesWholeFragment(col)
        THEN [column |-> Strip(SubSeq(col, 1, AliasAsIndex(col) - 1)),
              alias |-> StripChars(last, AliasQuotes)]
        ELSE IF Len(parts) > 1 /\ ~Contains(last, "(") /\ ~Contains(last, ")")
        THEN [column |-> JoinWith(SubSeq(parts, 1, Len(parts) - 1), " "),
              alias |-> StripChars(last, AliasQuotes)]
        ELSE [column |-> Strip(col), alias |-> DerivedAlias(Strip(col))]

\* The fragments parse_columns resolves: those of the projection list, when
\* there is one and it has no asterisk.
ResolvedFragments(query) ==
    LET clause == ProjectionOf(query)
    IN  IF clause = None \/ HasWildcard(clause) THEN <<>> ELSE SplitColumns(clause)

\* C12: for each fragment the alias is the name after an explicit AS that
\* aliases the whole fragment, else a trailing bare token without
\* parentheses, else derived from the expression; an AS inside a trailing
\* parenthesis, as in CAST(x AS int), does not split the fragment.
C12_AliasResolution ==
    parse_pc = "done" =>
        LET cols == ResolvedFragments(parse_query)
        IN  /\ Len(parse_result) = Len(cols) \/ parse_result = WildcardColumns
            /\ cols # <<>> =>
                  \A n \in 1..Len(cols) :
                      /\ parse_result[n].column = AliasByRule(cols[n]).column
                      /\ parse_result[n].alias = AliasByRule(cols[n]).alias

\* The same with the fragments whose AS stands inside a parenthesis left out:
\* everywhere else the rules and the code agree.
C12_OutsideParentheses ==
    parse_pc = "done" =>
        LET cols == ResolvedFragments(parse_query)
        IN  \A n \in 1..Len(cols) :
                (AliasAsIndex(cols[n]) > 0 => AliasesWholeFragment(cols[n])) =>
                    /\ parse_result[n].column = AliasByRule(cols[n]).column
                    /\ parse_result[n].alias = AliasByRule(cols[n]).alias

-----------------------------------------------------------------------------
(* infer_column_type applied to expressions nested up to MaxNesting deep.    *)

MaxNesting == 2

InferAtoms ==
    {"x", "update_id", "known_flag", "t.name", "current_date",
     "1", " 12 ", "1.5", "1.", "'s'"}

\* What an expression is wrapped in: a function call or a CAST.
InferWrappers ==
    {[open |-> f \o "(", close |-> ")"] :
        f \in {"COUNT", "SUM", "AVG", "MIN", "MAX", "NOW", "DATE", "UPPER", "concat"}}
    \cup {[open |-> "CAST(", close |-> " AS " \o t \o ")"] :
            t \in {"int", "double", "varchar", "date", "bool"}}

RECURSIVE InferExprs(_)
InferExprs(depth) ==
    IF depth = 0 THEN InferAtoms
    ELSE LET inner == InferExprs(depth - 1)
         IN  inner \cup {w.open \o e \o w.close : w \in InferWrappers, e \in inner}

InferInputs == InferExprs(MaxNesting)

InitInfer ==
    /\ infer_expr \in InferInputs
    /\ infer_type = None
    /\ NormIdle /\ ScanIdle /\ ParseIdle /\ UnifyIdle /\ CompatIdle /\ FusionIdle
    /\ ExtIdle

\* parse_columns, line 191: inferred_type = self.infer_column_type(column)
InferColumnType ==
    /\ infer_type = None
    /\ infer_type' = infer_column_type(infer_expr)
    /\ UNCHANGED <<infer_expr, normVars, scanVars, parseVars, unifyVars, compatVars, fusionVars,
                   extVars>>

NextInfer == InferColumnType

SpecInfer == InitInfer /\ [][NextInfer]_vars

\* The name stands in s as a word of its own, not inside a longer identifier.
HasWord(s, name) ==
    \E i \in 1..Len(s) :
        /\ StartsAt(s, i, name)
        /\ ~IsWordChar(Char(s, i - 1))
        /\ ~IsWordChar(Char(s, i + Len(name)))

\* The category by the first rule that matches, a date or string function
\* being one whose name the expression uses as a word.
TypeByRule(expr) ==
    LET e == Lower(expr) IN
    IF IsIntegerLiteral(expr) THEN "integer"
    ELSE IF IsDecimalLiteral(expr) THEN "decimal"
    ELSE IF IsQuotedLiteral(expr) THEN "string"
    ELSE IF CallsFunction(e, "count") THEN "integer"
    ELSE IF CallsFunction(e, "sum") \/ CallsFunction(e, "avg") THEN "decimal"
    ELSE IF CallsFunction(e, "min") \/ CallsFunction(e, "max") THEN "unknown"
    ELSE IF \E f \in DateFunctions : HasWord(e, f) THEN "date"
    ELSE IF \E f \in StringFunctions : HasWord(e, f) THEN "string"
    ELSE IF CastType(e) # None THEN CastCategory(CastType(e), 1)
    ELSE "unknown"

\* C13: infer_column_type classifies by the first matching rule in the fixed
\* order literal, COUNT, SUM/AVG, MIN/MAX, date function, string function,
\* CAST, else unknown; a bare column reference that calls no function, such
\* as update_id or known_flag, is unknown.
C13_FirstMatchingRule ==
    infer_type # None => infer_type = TypeByRule(infer_expr)

\* The same for the expressions in which every function name that occurs
\* occurs as a word: there the rules and the code agree.
C13_NamesAsWords ==
    (/\ infer_type # None
     /\ \A f \in DateFunctions \cup StringFunctions :
            Contains(Lower(infer_expr), f) =>
                \E g \in DateFunctions \cup StringFunctions :
                    HasWord(Lower(infer_expr), g) /\ Contains(g, f))
        => infer_type = TypeByRule(infer_expr)

-----------------------------------------------------------------------------
(* check_type_compatibility applied to the column sets of up to MaxSources   *)
(* sources of up to MaxSourceColumns columns each.                           *)

MaxSources == 2
MaxSourceColumns == 2

\* The (expression, alias, inferred type) entries parse_columns can return
\* for the projections `<expr> AS a` and `<expr> AS b`.
CompatColumns ==
    {[column |-> "x", alias |-> "a", type |-> t] :
        t \in {"integer", "decimal", "string", "date", "boolean", "unknown"}}
    \cup {[column |-> "y", alias |-> "b", type |-> t] : t \in {"integer", "string"}}

CompatInputs == SeqsUpTo(SeqsUpTo(CompatColumns, MaxSourceColumns), MaxSources)

InitCompat ==
    /\ compat_sets \in CompatInputs
    /\ compat_warnings = <<>>
    /\ compat_pc = "call"
    /\ NormIdle /\ ScanIdle /\ ParseIdle /\ UnifyIdle /\ InferIdle /\ FusionIdle
    /\ ExtIdle

\* unify_queries, line 332: type_warnings = self.check_type_compatibility(all_column_sets)
CheckTypeCompatibility ==
    /\ compat_pc = "call"
    /\ compat_warnings' = check_type_compatibility(compat_sets)
    /\ compat_pc' = "done"
    /\ UNCHANGED <<compat_sets, normVars, scanVars, parseVars, unifyVars, inferVars,
                   fusionVars, extVars>>

NextCompat == CheckTypeCompatibility

SpecCompat == InitCompat /\ [][NextCompat]_vars

\* Two types are compatible: identical, or one unknown, or both numeric, or
\* both textual.
Compatible(t1, t2) ==
    \/ t1 = t2
    \/ "unknown" \in {t1, t2}
    \/ {t1, t2} \subseteq {"integer", "decimal"}
    \/ {t1, t2} \subseteq {"string", "date"}

\* The types source p (1-based) has for the alias.
TypesIn(sets, p, alias) ==
    {sets[p][c].type : c \in {c \in 1..Len(sets[p]) : sets[p][c].alias = alias}}

\* Sources p and q share the alias with types that are not compatible.
Clash(sets, p, q, alias) ==
    \E t1 \in TypesIn(sets, p, alias), t2 \in TypesIn(sets, q, alias) : ~Compatible(t1, t2)

\* C14: check_type_compatibility emits exactly one warning for every
\* unordered pair of sources that share an alias with incompatible types and
\* none otherwise; a warning names the alias, the two ordinals and the types.
C14_OneWarningPerPair ==
    compat_pc = "done" =>
        /\ \A k \in 1..Len(compat_warnings) :
              LET w == compat_warnings[k] IN
              /\ w.query1 < w.query2
              /\ w.type1 \in TypesIn(compat_sets, w.query1, w.alias)
              /\ w.type2 \in TypesIn(compat_sets, w.query2, w.alias)
              /\ ~Compatible(w.type1, w.type2)
        /\ \A p, q \in 1..Len(compat_sets) : \A alias \in {"a", "b"} :
              (p < q /\ Clash(compat_sets, p, q, alias)) =>
                  Cardinality({k \in 1..Len(compat_warnings) :
                      /\ compat_warnings[k].alias = alias
                      /\ compat_warnings[k].query1 = p
                      /\ compat_warnings[k].query2 = q}) = 1

\* No source has two columns with one alias.
UniqueAliases(sets) ==
    \A p \in 1..Len(sets) : \A c, d \in 1..Len(sets[p]) :
        sets[p][c].alias = sets[p][d].alias => c = d

\* The same for sources in which every alias names one column: there the
\* statement holds.
C14_UniqueAliases ==
    (compat_pc = "done" /\ UniqueAliases(compat_sets)) =>
        /\ \A k \in 1..Len(compat_warnings) :
              LET w == compat_warnings[k] IN
              /\ w.query1 < w.query2
              /\ w.type1 \in TypesIn(compat_sets, w.query1, w.alias)
              /\ w.type2 \in TypesIn(compat_sets, w.query2, w.alias)
              /\ ~Compatible(w.type1, w.type2)
        /\ \A p, q \in 1..Len(compat_sets) : \A alias \in {"a", "b"} :
              (p < q /\ Clash(compat_sets, p, q, alias)) <=>
                  Cardinality({k \in 1..Len(compat_warnings) :
                      /\ compat_warnings[k].alias = alias
                      /\ compat_warnings[k].query1 = p
                      /\ compat_warnings[k].query2 = q}) = 1

-----------------------------------------------------------------------------
(* Claims about the text unify_queries builds                                *)

\* The text without the terminators it ends in.
RECURSIVE WithoutTerminator(_)
WithoutTerminator(s) ==
    IF EndsWith(s, ";") THEN WithoutTerminator(SubSeq(s, 1, Len(s) - 1)) ELSE s

\* How many times sub occurs in s.
CountOf(s, sub) == Cardinality({i \in 1..Len(s) : StartsAt(s, i, sub)})

\* The n-th CTE is named cte<n> and wraps the normalized n-th source.
WrapsSource(n) ==
    LET head == "cte" \o IntToStr(n) \o " AS ("
        cte == ctes[n]
    IN  /\ StartsAt(cte, 1, head)
        /\ EndsWith(cte, ")")
        /\ Strip(SubSeq(cte, Len(head) + 1, Len(cte) - 1))
              = WithoutTerminator(fix_simple_syntax_errors(queries[n]))

\* C15: for N queries there are N CTEs cte1..cteN in input order, each the
\* normalized source without its terminator, N outer SELECTs each reading
\* FROM its own CTE, N-1 UNION ALL between them in the same order, all
\* wrapped in SELECT * FROM (...) AS unified_result.
C15_OneCtePerSource ==
    (unify_pc = "done" /\ Len(queries) >= 1) =>
        LET N == Len(queries) IN
        /\ Len(ctes) = N /\ Len(union_queries) = N
        /\ \A n \in 1..N :
              /\ WrapsSource(n)
              /\ StartsAt(union_queries[n], 1, "SELECT ")
              /\ EndsWith(union_queries[n], " FROM cte" \o IntToStr(n))
        /\ StartsAt(final_query, 1, "WITH " \o JoinWith(ctes, ",\n") \o "\n")
        /\ CountOf(final_query, "UNION ALL") = N - 1
        /\ EndsWith(final_query,
              "SELECT * FROM (\n" \o JoinWith(union_queries, "\nUNION ALL\n")
                  \o "\n) AS unified_result;")

C15_Witness ==
    /\ unify_pc = "done"
    /\ Len(queries) = MaxQueries
    /\ Len(ctes) = MaxQueries
    /\ CountOf(final_query, "UNION ALL") = MaxQueries - 1
    /\ \E n \in 1..Len(queries) : queries[n] # queries[1]

\* What unify_queries gives for the list on a SQLProcessor just constructed
\* (type_warnings empty, line 62).
FreshRun(query_list) == unify_queries(query_list, <<>>)

\* C16: unify_queries is deterministic: a run on a processor that served
\* other calls before gives the unified text and the ordered warning list
\* that a run on the same list gives on a new processor.
C16_Deterministic ==
    unify_pc = "done" =>
        /\ final_query = FreshRun(queries).final_query
        /\ type_warnings = FreshRun(queries).type_warnings

\* The unified text alone is the same on a used and on a new processor.
C16_SameText ==
    unify_pc = "done" => final_query = FreshRun(queries).final_query

-----------------------------------------------------------------------------
(* OrionQueryUnifier.analyze_table_schemas and generate_unified_query       *)
(* (src/aws version/definitive.py).  A dict is the sequence of its items in  *)
(* insertion order.                                                          *)

\* The elements of a list.
Elements(list) == {list[n] : n \in 1..Len(list)}

\* Lines 211-223, for the columns of one schema from the c-th on.
RECURSIVE AddColumnTypes(_, _, _)
AddColumnTypes(types_so_far, schema_columns, c) ==
    IF c > Len(schema_columns) THEN types_so_far
    ELSE LET col_name == schema_columns[c].name
             col_type == schema_columns[c].type
             known == {n \in 1..Len(types_so_far) : types_so_far[n].col = col_name}
             added ==
                 IF known = {}
                 THEN Append(types_so_far, [col |-> col_name, types |-> <<col_type>>])
                 ELSE [n \in 1..Len(types_so_far) |->
                          IF n \in known /\ col_type \notin Elements(types_so_far[n].types)
                          THEN [types_so_far[n] EXCEPT !.types = Append(@, col_type)]
                          ELSE types_so_far[n]]
         IN  AddColumnTypes(added, schema_columns, c + 1)

\* Lines 207-223: column_types after the schemas from the n-th on.
RECURSIVE ColumnTypesFrom(_, _, _)
ColumnTypesFrom(types_so_far, schema_list, n) ==
    IF n > Len(schema_list) THEN types_so_far
    ELSE ColumnTypesFrom(AddColumnTypes(types_so_far, schema_list[n].columns, 1),
                         schema_list, n + 1)

\* analyze_table_schemas: (column_types, all_columns)
analyze_table_schemas(schema_list) ==
    LET types == ColumnTypesFrom(<<>>, schema_list, 1)
    IN  [column_types |-> types, all_columns |-> {types[n].col : n \in 1..Len(types)}]

\* The choice with the integer test made before the double test.
FinalTypeIntegerFirst(types) ==
    LET declared == Elements(types) IN
    IF "string" \in declared THEN "string"
    ELSE IF "integer" \in declared \/ "int" \in declared \/ "bigint" \in declared THEN "bigint"
    ELSE IF "double" \in declared \/ "float" \in declared THEN "double"
    ELSE IF "boolean" \in declared THEN "boolean"
    ELSE IF "date" \in declared \/ "timestamp" \in declared
         THEN (IF "timestamp" \in declared THEN "timestamp" ELSE "date")
    ELSE types[1]

\* Lines 264-282: the type chosen for a column from the types declared for it.
FinalType(types) ==
    LET declared == Elements(types) IN
    IF "string" \in declared THEN "string"
    ELSE IF "double" \in declared \/ "float" \in declared THEN "double"
    ELSE IF "integer" \in declared \/ "int" \in declared \/ "bigint" \in declared THEN "bigint"
    ELSE IF "boolean" \in declared THEN "boolean"
    ELSE IF "date" \in declared \/ "timestamp" \in declared
         THEN (IF "timestamp" \in declared THEN "timestamp" ELSE "date")
    ELSE types[1]

\* Lines 262-282: column_final_types
ColumnFinalTypes(col_types) ==
    [n \in 1..Len(col_types) |->
        [col |-> col_types[n].col, type |-> FinalType(col_types[n].types)]]

\* column_final_types.get(col, 'string'), line 286
FinalTypeOf(final_types, col) ==
    LET at == {n \in 1..Len(final_types) : final_types[n].col = col}
    IN  IF at = {} THEN "string" ELSE final_types[CHOOSE n \in at : TRUE].type

\* cte_name = f"cte_{i}", lines 291 and 305
FusionCteName(i) == "cte_" \o IntToStr(i)

\* Lines 288-301: the projection of the final SELECT for one column.
FinalColumnPart(col, final_type, table_count) ==
    LET cast_parts == [n \in 1..table_count |-> FusionCteName(n - 1) \o "." \o col]
        coalesce_stmt == "COALESCE(" \o JoinWith(cast_parts, ", ") \o ")"
    IN  IF final_type \notin {"string", "varchar"}
        THEN "CAST(" \o coalesce_stmt \o " AS " \o final_type \o ") AS " \o col
        ELSE coalesce_stmt \o " AS " \o col

\* Lines 285-301: final_column_parts
FinalColumnParts(tables, final_types, cols) ==
    LET sorted_cols == Sorted(cols)
    IN  [n \in 1..Len(sorted_cols) |->
            FinalColumnPart(sorted_cols[n], FinalTypeOf(final_types, sorted_cols[n]),
                            Len(tables))]

\* Lines 304-319: the CTE of the table with index i.
CteStatement(i, table_name, database, cols) ==
    "\n" \o FusionCteName(i) \o " AS (\n    SELECT \n        "
         \o JoinWith(Sorted(cols), ", ")
         \o "\n    FROM " \o database \o "." \o table_name \o "\n)"

\* Lines 322-329: joins
Joins(table_count) ==
    [n \in 1..(table_count - 1) |-> "FULL OUTER JOIN " \o FusionCteName(n) \o " ON 1=1"]

\* Lines 332-339: query
UnifiedQueryText(cte_list, parts, join_list) ==
    "WITH \n" \o JoinWith(cte_list, ", ") \o "\n\nSELECT\n    " \o JoinWith(parts, ", ")
        \o "\nFROM " \o FusionCteName(0) \o "\n" \o JoinWith(join_list, " ") \o "\n"

\* generate_unified_query: its locals at the return and the value returned.
generate_unified_query(tables, database, col_types, cols) ==
    LET final_types == ColumnFinalTypes(col_types)
        parts == FinalColumnParts(tables, final_types, cols)
        cte_list == [n \in 1..Len(tables) |-> CteStatement(n - 1, tables[n], database, cols)]
        join_list == Joins(Len(tables))
    IN  [column_final_types |-> final_types, final_column_parts |-> parts,
         cte_statements |-> cte_list, joins |-> join_list,
         query |-> UnifiedQueryText(cte_list, parts, join_list)]

-----------------------------------------------------------------------------
(* execute_pipeline from the schemas on (lines 386-396), for up to MaxTables *)
(* tables whose schemas declare `amount` and `name` or leave them out.       *)

MaxTables == 2

FusionDatabase == "db"

\* The types a table declares for `amount`.
AmountTypes ==
    {"string", "varchar", "char", "double", "float", "decimal", "int", "bigint",
     "boolean", "date", "timestamp", "binary"}

\* The column lists DESCRIBE can give for a table.
SchemaColumns ==
    {amount \o name :
        amount \in {<<>>} \cup {<<[name |-> "amount", type |-> t]>> : t \in AmountTypes},
        name \in {<<>>, <<[name |-> "name", type |-> "string"]>>}}

\* The tables are t0, t1, ... in the order given.
TableNames(table_count) == [n \in 1..table_count |-> "t" \o IntToStr(n - 1)]

InitFusion ==
    /\ \E table_count \in 1..MaxTables :
          /\ table_names = TableNames(table_count)
          /\ \E column_lists \in [1..table_count -> SchemaColumns] :
                schemas = [n \in 1..table_count |->
                              [table_name |-> table_names[n], columns |-> column_lists[n]]]
    /\ column_types = <<>> /\ all_columns = {}
    /\ column_final_types = <<>> /\ final_column_parts = <<>> /\ cte_statements = <<>>
    /\ joins = <<>> /\ unified_query = None
    /\ fusion_pc = "analyze"
    /\ SqlIdle /\ ExtIdle

\* execute_pipeline, line 387
AnalyzeTableSchemas ==
    /\ fusion_pc = "analyze"
    /\ \E r \in {analyze_table_schemas(schemas)} :
          /\ column_types' = r.column_types
          /\ all_columns' = r.all_columns
    /\ fusion_pc' = "analyzed"
    /\ stages' = Append(stages, "analyze")
    /\ UNCHANGED <<table_names, schemas, column_final_types, final_column_parts,
                   cte_statements, joins, unified_query,
                   sqlVars, waitVars, callVars>>

\* execute_pipeline, lines 388-390: no column in any table, None is returned
AbortNoColumns ==
    /\ fusion_pc = "analyzed"
    /\ all_columns = {}
    /\ fusion_pc' = "aborted"
    /\ UNCHANGED <<table_names, schemas, column_types, all_columns, column_final_types,
                   final_column_parts, cte_statements, joins, unified_query,
                   sqlVars, extVars>>

\* execute_pipeline, lines 393-396
GenerateUnifiedQuery ==
    /\ fusion_pc = "analyzed"
    /\ all_columns # {}
    /\ \E r \in {generate_unified_query(table_names, FusionDatabase, column_types, all_columns)} :
          /\ column_final_types' = r.column_final_types
          /\ final_column_parts' = r.final_column_parts
          /\ cte_statements' = r.cte_statements
          /\ joins' = r.joins
          /\ unified_query' = r.query
    /\ fusion_pc' = "done"
    /\ stages' = Append(stages, "generate")
    /\ UNCHANGED <<table_names, schemas, column_types, all_columns,
                   sqlVars, waitVars, callVars>>

NextFusion == AnalyzeTableSchemas \/ AbortNoColumns \/ GenerateUnifiedQuery

SpecFusion == InitFusion /\ [][NextFusion]_vars

-----------------------------------------------------------------------------
(* Claims about schema fusion                                                *)

TextualTypes == {"string", "varchar", "char"}
DecimalTypes == {"float", "double", "decimal"}
IntegerTypes == {"int", "integer", "bigint", "smallint", "tinyint"}

\* The category a type chosen by generate_unified_query stands for.
CategoryOf(type) ==
    IF type \in TextualTypes THEN "String"
    ELSE IF type \in DecimalTypes THEN "Decimal"
    ELSE IF type \in IntegerTypes THEN "Integer"
    ELSE IF type = "boolean" THEN "Boolean"
    ELSE type

\* The harmonized category by priority over the types declared for a column.
HarmonizedCategory(types) ==
    LET declared == Elements(types) IN
    IF declared \cap TextualTypes # {} THEN "String"
    ELSE IF declared \cap DecimalTypes # {} THEN "Decimal"
    ELSE IF declared \subseteq IntegerTypes THEN "Integer"
    ELSE IF "boolean" \in declared THEN "Boolean"
    ELSE IF "timestamp" \in declared THEN "timestamp"
    ELSE IF "date" \in declared THEN "date"
    ELSE types[1]

\* C17: the harmonized type of a column is String if any table declares a
\* textual type (string, varchar, char), else Decimal if any declares float,
\* double or decimal, else Integer only if all are integer-family, else
\* Boolean, else timestamp before date, else the first declared type.
C17_HarmonizedType ==
    fusion_pc = "done" =>
        \A n \in 1..Len(column_types) :
            CategoryOf(FinalTypeOf(column_final_types, column_types[n].col))
                = HarmonizedCategory(column_types[n].types)

\* Table t0 declares amount:int, table t1 declares amount:double, nothing else.
Scenario3 ==
    /\ Len(schemas) = 2
    /\ schemas[1].columns = <<[name |-> "amount", type |-> "int"]>>
    /\ schemas[2].columns = <<[name |-> "amount", type |-> "double"]>>

\* The names the CTEs are declared under, read from the text of the query:
\* the word before each " AS (" that opens a CTE.
DeclaredCteNames ==
    [n \in 1..Len(cte_statements) |->
        LET cte == cte_statements[n]
            open == CHOOSE i \in 1..Len(cte) : StartsAt(cte, i, " AS (")
        IN  Strip(SubSeq(cte, 1, open - 1))]

DeclaredColumns(n) == {schemas[n].columns[c].name : c \in 1..Len(schemas[n].columns)}

\* The select list of a CTE: the items between its SELECT and its FROM.
SelectItems(cte) ==
    LET from == CHOOSE i \in 1..Len(cte) : StartsAt(cte, i, "SELECT")
        to == CHOOSE i \in 1..Len(cte) : StartsAt(cte, i, "\n    FROM ")
    IN  SplitColumns(SubSeq(cte, from + Len("SELECT"), to - 1))

\* C19: the CTE of a table selects, for every column of the union, the
\* table's own column when its schema declares it and a NULL placeholder
\* carrying that alias when it does not: it references no column that is
\* absent from the table's schema.
C19_OwnColumnOrPlaceholder ==
    fusion_pc = "done" =>
        \A n \in 1..Len(table_names) :
            LET items == SelectItems(cte_statements[n])
                cols == Sorted(all_columns)
            IN  /\ Len(items) = Len(cols)
                /\ \A m \in 1..Len(cols) :
                      IF cols[m] \in DeclaredColumns(n)
                      THEN HasWord(items[m], cols[m]) /\ ~HasWord(items[m], "NULL")
                      ELSE HasWord(items[m], "NULL") /\ EndsWith(items[m], " AS " \o cols[m])

\* The same for the tables that declare every column of the union: their
\* CTEs select their own columns, in sorted order.
C19_FullTables ==
    fusion_pc = "done" =>
        \A n \in 1..Len(table_names) :
            DeclaredColumns(n) = all_columns =>
                SelectItems(cte_statements[n]) = Sorted(all_columns)

\* COALESCE over the column in every CTE once, in declaration order.
CoalesceOf(col) ==
    "COALESCE("
        \o JoinWith([n \in 1..Len(cte_statements) |-> DeclaredCteNames[n] \o "." \o col], ", ")
        \o ")"

\* The projection of a column whose harmonized type is given: the COALESCE,
\* in a CAST to the type unless the type is textual.
ProjectionByRule(col, type) ==
    IF type \in TextualTypes
    THEN CoalesceOf(col) \o " AS " \o col
    ELSE "CAST(" \o CoalesceOf(col) \o " AS " \o type \o ") AS " \o col

\* FROM the first CTE, then one FULL OUTER JOIN ... ON 1=1 per later CTE,
\* as the last lines of the query.
FromByRule ==
    "\nFROM " \o DeclaredCteNames[1] \o "\n"
        \o JoinWith([n \in 1..(Len(cte_statements) - 1) |->
                        "FULL OUTER JOIN " \o DeclaredCteNames[n + 1] \o " ON 1=1"], " ")
        \o "\n"

\* C20: the final SELECT has one projection per column of all_columns in
\* sorted order, each a COALESCE over all N CTEs once in declaration order,
\* in a CAST to the harmonized type iff that type is not textual, and its
\* FROM part is the first CTE and N-1 FULL OUTER JOIN <cte> ON 1=1 in order.
C20_FinalSelect ==
    fusion_pc = "done" =>
        LET cols == Sorted(all_columns) IN
        /\ Len(cte_statements) = Len(table_names)
        /\ final_column_parts =
              [m \in 1..Len(cols) |->
                  ProjectionByRule(cols[m], FinalTypeOf(column_final_types, cols[m]))]
        /\ Len(joins) = Len(table_names) - 1
        /\ CountOf(unified_query, "FULL OUTER JOIN") = Len(table_names) - 1
        /\ EndsWith(unified_query,
              "SELECT\n    " \o JoinWith(final_column_parts, ", ") \o FromByRule)

\* The same with only `string` and `varchar` taken as textual.
C20_CastUnlessStringOrVarchar ==
    fusion_pc = "done" =>
        LET cols == Sorted(all_columns) IN
        /\ final_column_parts =
              [m \in 1..Len(cols) |->
                  LET type == FinalTypeOf(column_final_types, cols[m])
                  IN  IF type = "char"
                      THEN "CAST(" \o CoalesceOf(cols[m]) \o " AS char) AS " \o cols[m]
                      ELSE ProjectionByRule(cols[m], type)]
        /\ Len(joins) = Len(table_names) - 1
        /\ CountOf(unified_query, "FULL OUTER JOIN") = Len(table_names) - 1
        /\ EndsWith(unified_query,
              "SELECT\n    " \o JoinWith(final_column_parts, ", ") \o FromByRule)

-----------------------------------------------------------------------------
(* OrionQueryUnifier._wait_for_query_completion (definitive.py, 161-190):   *)
(* one action per outcome of an iteration of the while loop.  The engine    *)
(* answers get_query_execution with any of its five states, or the call     *)
(* raises.                                                                   *)

\* Line 172
max_retries == 50

\* The states Athena reports for a query execution.
EngineStates == {"RUNNING", "QUEUED", "SUCCEEDED", "FAILED", "CANCELLED"}

\* Line 175 with one retry more than max_retries allows.
WaitContinuesOneMore ==
    wait_state \in {"RUNNING", "QUEUED"} /\ wait_retries <= max_retries

\* Line 175: while state in ['RUNNING', 'QUEUED'] and retries < max_retries
WaitContinues ==
    wait_state \in {"RUNNING", "QUEUED"} /\ wait_retries < max_retries

\* Lines 171-173
WaitStart ==
    /\ wait_state' = "RUNNING"
    /\ wait_retries' = 0
    /\ wait_polls' = 0
    /\ wait_observed' = None
    /\ wait_result' = None
    /\ wait_pc' = "loop"

\* Line 129: the call has returned or raised, its locals are gone.
WaitReturn ==
    /\ wait_state' = None /\ wait_retries' = 0 /\ wait_polls' = 0
    /\ wait_observed' = None /\ wait_result' = None /\ wait_pc' = "idle"

\* Lines 176-177: the engine answers with `state`.
Observe(state) ==
    /\ wait_state' = state
    /\ wait_observed' = state
    /\ wait_polls' = wait_polls + 1

\* Lines 176-177, 187-188: still running, one more retry
PollStillRunning ==
    /\ wait_pc = "loop" /\ WaitContinues
    /\ \E state \in {"RUNNING", "QUEUED"} : Observe(state)
    /\ wait_retries' = wait_retries + 1
    /\ UNCHANGED <<wait_result, wait_pc, sqlVars, fusionVars, pipeVars>>

\* Lines 176-182: return state
PollFailed ==
    /\ wait_pc = "loop" /\ WaitContinues
    /\ \E state \in {"FAILED", "CANCELLED"} : Observe(state) /\ wait_result' = state
    /\ wait_pc' = "returned"
    /\ UNCHANGED <<wait_retries, sqlVars, fusionVars, pipeVars>>

\* Lines 176-177, 184-185, 190: break, return state
PollSucceeded ==
    /\ wait_pc = "loop" /\ WaitContinues
    /\ Observe("SUCCEEDED")
    /\ wait_result' = "SUCCEEDED"
    /\ wait_pc' = "returned"
    /\ UNCHANGED <<wait_retries, sqlVars, fusionVars, pipeVars>>

\* Line 176: get_query_execution raises
PollRaises ==
    /\ wait_pc = "loop" /\ WaitContinues
    /\ wait_polls' = wait_polls + 1
    /\ wait_pc' = "raised"
    /\ UNCHANGED <<wait_state, wait_retries, wait_observed, wait_result,
                   sqlVars, fusionVars, pipeVars>>

\* Lines 175, 190: the loop condition fails, return state
WaitExhausted ==
    /\ wait_pc = "loop" /\ ~WaitContinues
    /\ wait_result' = wait_state
    /\ wait_pc' = "returned"
    /\ UNCHANGED <<wait_state, wait_retries, wait_polls, wait_observed,
                   sqlVars, fusionVars, pipeVars>>

InitWait ==
    /\ wait_state = "RUNNING" /\ wait_retries = 0 /\ wait_polls = 0
    /\ wait_observed = None /\ wait_result = None /\ wait_pc = "loop"
    /\ SqlIdle /\ FusionIdle /\ PipeIdle

NextWait == PollStillRunning \/ PollFailed \/ PollSucceeded \/ PollRaises \/ WaitExhausted

\* The loop is sequential code: once an iteration's call and its sleep of one
\* second have returned, the next iteration runs.
SpecWait == InitWait /\ [][NextWait]_vars /\ WF_vars(NextWait)

\* C22: _wait_for_query_completion ends in every behaviour of the engine.  It
\* never asks for the status more than max_retries (50) times, it is still in
\* its loop only while every answer so far was RUNNING or QUEUED, so it
\* returns in the iteration that sees FAILED, CANCELLED or SUCCEEDED, what it
\* returns is the state the engine reported last, and it leaves without
\* returning only when get_query_execution raised.
C22_WaitTerminates ==
    /\ [](wait_polls <= max_retries)
    /\ [](wait_pc = "loop" =>
            /\ wait_state \in {"RUNNING", "QUEUED"}
            /\ wait_polls = wait_retries)
    /\ [](wait_pc = "returned" => wait_result = wait_observed /\ wait_result \in EngineStates)
    /\ [](wait_pc = "raised" => wait_observed \in {None, "RUNNING", "QUEUED"})
    /\ <>(wait_pc \in {"returned", "raised"})

\* The engine reported RUNNING or QUEUED fifty times and the wait returned.
C22_Witness ==
    /\ wait_pc = "returned"
    /\ wait_polls = max_retries
    /\ wait_result \in {"RUNNING", "QUEUED"}

-----------------------------------------------------------------------------
(* OrionQueryUnifier.execute_pipeline (definitive.py, 344-396) from its     *)
(* first line: authentication, validation of the table names, one           *)
(* get_table_schema call per table (98-159) with its wait, then the         *)
(* analysis and the generation modelled above.                               *)

\* Lines 84-96: the names stripped, the blank ones dropped
validate_table_names(names) ==
    LET kept == SelectSeq(names, LAMBDA table : table # "" /\ Strip(table) # "")
    IN  [n \in 1..Len(kept) |-> Strip(kept[n])]

\* Lines 139-149: the rows after the header that carry a name and a type
ColumnsOfRows(rows) ==
    LET described == SelectSeq(IF rows = <<>> THEN <<>> ELSE Tail(rows),
                               LAMBDA data : Len(data) >= 2 /\ data[1] # "" /\ data[2] # "")
    IN  [n \in 1..Len(described) |-> [name |-> described[n][1], type |-> described[n][2]]]

\* The table names a caller passes.
RawTableNames == {"t0", " t1 ", " "}

PipelineInputs == SeqsUpTo(RawTableNames, MaxTables)

\* The rows get_query_results delivers: each row is the list of its cells'
\* VarCharValue, "" for a cell without one.
ResultRows ==
    LET header == <<"col_name", "data_type">>
    IN  {<<>>,
         <<header>>,
         <<header, <<"amount", "int">>>>,
         <<header, <<"amount", "string">>, <<"name", "string">>>>,
         <<header, <<"amount", "double">>, <<"", "int">>, <<"name", "">>, <<"name">>>>,
         <<header, <<"amount int">>>>}

InitPipeline ==
    /\ raw_table_names \in PipelineInputs
    /\ fusion_pc = "auth"
    /\ table_names = <<>> /\ schemas = <<>> /\ column_types = <<>> /\ all_columns = {}
    /\ column_final_types = <<>> /\ final_column_parts = <<>> /\ cte_statements = <<>>
    /\ joins = <<>> /\ unified_query = None
    /\ athena_client = None /\ table_index = 0 /\ stages = <<>> /\ started_queries = 0
    /\ outcomes = <<>> /\ authenticated = None
    /\ SqlIdle /\ WaitIdle

unchangedByAuth ==
    <<table_names, schemas, column_types, all_columns, column_final_types,
      final_column_parts, cte_statements, joins, unified_query, raw_table_names,
      table_index, started_queries, outcomes, sqlVars, waitVars>>

\* Lines 368, 51-65: the client is built and list_work_groups answers
AuthenticateAthena ==
    /\ fusion_pc = "auth"
    /\ athena_client' = "client"
    /\ authenticated' = "True"
    /\ stages' = Append(stages, "authenticate")
    /\ fusion_pc' = "validate"
    /\ UNCHANGED unchangedByAuth

\* Lines 368-370 with the failure ignored: the pipeline goes on.
AuthenticationFailureIgnored ==
    /\ fusion_pc = "auth"
    /\ athena_client' \in {None, "client"}
    /\ authenticated' = "False"
    /\ stages' = Append(stages, "authenticate")
    /\ fusion_pc' = "validate"
    /\ UNCHANGED unchangedByAuth

\* Lines 368-370, 67-72: boto3.client raises (no client is stored) or
\* list_work_groups raises (the client is stored); the pipeline returns None.
AuthenticationFails ==
    /\ fusion_pc = "auth"
    /\ athena_client' \in {None, "client"}
    /\ authenticated' = "False"
    /\ stages' = Append(stages, "authenticate")
    /\ fusion_pc' = "aborted"
    /\ UNCHANGED unchangedByAuth

\* Lines 373-376, 379
ValidateTableNames ==
    /\ fusion_pc = "validate"
    /\ table_names' = validate_table_names(raw_table_names)
    /\ stages' = Append(stages, "validate")
    /\ IF table_names' = <<>>
       THEN fusion_pc' = "aborted" /\ table_index' = table_index
       ELSE fusion_pc' = "fetch" /\ table_index' = 1
    /\ UNCHANGED <<schemas, column_types, all_columns, column_final_types,
                   final_column_parts, cte_statements, joins, unified_query,
                   athena_client, raw_table_names, started_queries, outcomes,
                   authenticated, sqlVars, waitVars>>

\* Lines 381-384 and 380: get_table_schema returned `schema`; the loop goes
\* on with the next table or ends.
SchemaFetched(schema, outcome) ==
    /\ schemas' = Append(schemas, schema)
    /\ outcomes' = Append(outcomes, outcome)
    /\ table_index' = table_index + 1
    /\ fusion_pc' = IF table_index = Len(table_names) THEN "analyze" ELSE "fetch"

unchangedByFetch ==
    <<table_names, column_types, all_columns, column_final_types, final_column_parts,
      cte_statements, joins, unified_query, athena_client, raw_table_names,
      authenticated, sqlVars>>

\* Lines 381, 109-129: start_query_execution is called and the wait begins
StartQueryExecution ==
    /\ fusion_pc = "fetch"
    /\ athena_client # None
    /\ stages' = Append(stages, "schema")
    /\ started_queries' = started_queries + 1
    /\ WaitStart
    /\ fusion_pc' = "wait"
    /\ UNCHANGED <<schemas, outcomes, table_index, unchangedByFetch>>

\* Lines 381, 109-111 (no client) and 119-124, 157-159 (the call raises)
StartQueryFails ==
    /\ fusion_pc = "fetch"
    /\ stages' = Append(stages, "schema")
    /\ IF athena_client = None
       THEN started_queries' = started_queries
       ELSE started_queries' = started_queries + 1
    /\ SchemaFetched([columns |-> <<>>], "exception")
    /\ UNCHANGED <<unchangedByFetch, waitVars>>

\* Lines 131-133 with the pipeline ended there instead of going on.
SchemaUnavailableAborts ==
    /\ fusion_pc = "wait"
    /\ \/ wait_pc = "returned" /\ wait_result # "SUCCEEDED"
       \/ wait_pc = "raised"
    /\ schemas' = Append(schemas, [columns |-> <<>>])
    /\ outcomes' = Append(outcomes, IF wait_pc = "raised" THEN "exception" ELSE "status")
    /\ table_index' = table_index + 1
    /\ fusion_pc' = IF table_index = Len(table_names) THEN "aborted" ELSE "fetch"
    /\ WaitReturn
    /\ UNCHANGED <<stages, started_queries, unchangedByFetch>>

\* Lines 129-133 (status not SUCCEEDED) and 157-159 (the wait raised)
SchemaUnavailable ==
    /\ fusion_pc = "wait"
    /\ \/ /\ wait_pc = "returned" /\ wait_result # "SUCCEEDED"
          /\ SchemaFetched([columns |-> <<>>], "status")
       \/ /\ wait_pc = "raised"
          /\ SchemaFetched([columns |-> <<>>], "exception")
    /\ WaitReturn
    /\ UNCHANGED <<stages, started_queries, unchangedByFetch>>

\* Lines 136-155: the results are fetched and turned into the schema
GetQueryResults ==
    /\ fusion_pc = "wait"
    /\ wait_pc = "returned" /\ wait_result = "SUCCEEDED"
    /\ \E rows \in ResultRows :
          LET described == ColumnsOfRows(rows)
          IN  SchemaFetched([table_name |-> table_names[table_index], columns |-> described],
                            IF described = <<>> THEN "empty" ELSE "columns")
    /\ WaitReturn
    /\ UNCHANGED <<stages, started_queries, unchangedByFetch>>

\* Lines 136, 157-159: get_query_results raises
GetQueryResultsFails ==
    /\ fusion_pc = "wait"
    /\ wait_pc = "returned" /\ wait_result = "SUCCEEDED"
    /\ SchemaFetched([columns |-> <<>>], "exception")
    /\ WaitReturn
    /\ UNCHANGED <<stages, started_queries, unchangedByFetch>>

NextPipeline ==
    \/ AuthenticateAthena \/ AuthenticationFails \/ ValidateTableNames
    \/ StartQueryExecution \/ StartQueryFails
    \/ PollStillRunning \/ PollFailed \/ PollSucceeded \/ PollRaises \/ WaitExhausted
    \/ SchemaUnavailable \/ GetQueryResults \/ GetQueryResultsFails
    \/ AnalyzeTableSchemas \/ AbortNoColumns \/ GenerateUnifiedQuery

SpecPipeline == InitPipeline /\ [][NextPipeline]_vars

-----------------------------------------------------------------------------
(* Claims about execute_pipeline                                             *)

\* The tables whose get_table_schema call failed or found no column, and the
\* schemas of the others.
UnavailableTables == {n \in 1..Len(outcomes) : outcomes[n] # "columns"}

AvailableSchemas ==
    LET available == {n \in 1..Len(schemas) : n \notin UnavailableTables}
        RECURSIVE Pick(_)
        Pick(n) == IF n > Len(schemas) THEN <<>>
                   ELSE (IF n \in available THEN <<schemas[n]>> ELSE <<>>) \o Pick(n + 1)
    IN  Pick(1)

\* C21: when get_table_schema fails for a table (status not SUCCEEDED, an
\* exception, or no described column) and another table yields columns,
\* execute_pipeline does not abort: the failed table's schema has no column,
\* the column-type map and the column union are those of the other tables
\* alone, and the run that ends returns a unified query.
C21_FailedTableContributesNothing ==
    (/\ fusion_pc \in {"analyzed", "aborted", "done"}
     /\ Len(outcomes) = Len(table_names)
     /\ UnavailableTables # {}
     /\ UnavailableTables # 1..Len(outcomes))
    => /\ \A n \in UnavailableTables : schemas[n].columns = <<>>
       /\ column_types = analyze_table_schemas(AvailableSchemas).column_types
       /\ all_columns = analyze_table_schemas(AvailableSchemas).all_columns
       /\ all_columns # {}
       /\ fusion_pc # "aborted"
       /\ fusion_pc = "done" =>
             /\ unified_query # None
             /\ Len(cte_statements) = Len(table_names)

\* One table failed on its status, another was described, a query was returned.
C21_Witness ==
    /\ fusion_pc = "done"
    /\ \E n \in 1..Len(outcomes) : outcomes[n] = "status"
    /\ \E n \in 1..Len(outcomes) : outcomes[n] = "columns"
    /\ unified_query # None

\* The stages of a complete run over the validated tables.
AllStages ==
    <<"authenticate", "validate">> \o [n \in 1..Len(table_names) |-> "schema"]
        \o <<"analyze", "generate">>

IsPrefix(s, t) == Len(s) <= Len(t) /\ s = SubSeq(t, 1, Len(s))

\* C27: execute_pipeline runs authenticate, validate, one schema fetch per
\* table, analyze, generate in this order.  After a failed authentication
\* nothing else ran and no schema query was started; with no valid table name
\* nothing ran after the validation; with no column in any table nothing ran
\* after the analysis; a query is returned only after all five stages.
C27_StagesInOrder ==
    /\ fusion_pc # "auth" /\ fusion_pc # "validate" /\ table_names # <<>>
          => IsPrefix(stages, AllStages)
    /\ authenticated = "False" =>
          /\ fusion_pc = "aborted" /\ unified_query = None
          /\ stages = <<"authenticate">>
          /\ started_queries = 0
    /\ authenticated = None => stages = <<>> /\ started_queries = 0
    /\ fusion_pc = "validate" => stages = <<"authenticate">>
    /\ (authenticated = "True" /\ fusion_pc # "validate" /\ table_names = <<>>) =>
          /\ fusion_pc = "aborted" /\ unified_query = None
          /\ stages = <<"authenticate", "validate">>
          /\ started_queries = 0
    /\ (fusion_pc = "aborted" /\ table_names # <<>>) =>
          /\ all_columns = {} /\ unified_query = None
          /\ stages = SubSeq(AllStages, 1, Len(AllStages) - 1)
    /\ unified_query # None => fusion_pc = "done" /\ stages = AllStages
    /\ fusion_pc = "done" => unified_query # None
    /\ started_queries <= Cardinality({n \in 1..Len(stages) : stages[n] = "schema"})

\* The authentication failed with the client already stored, and the run ended.
C27_Witness ==
    /\ authenticated = "False" /\ athena_client # None /\ fusion_pc = "aborted"
    /\ raw_table_names # <<>>

-----------------------------------------------------------------------------
(* Claim about the scanner's depth counter                                   *)

\* C28: while parse_columns scans a projection list, parenthesis_count is
\* never negative, so that a comma outside quotes that follows an unmatched
\* closing parenthesis still separates fields.
C28_DepthNeverNegative == parenthesis_count >= 0

-----------------------------------------------------------------------------
(* Claim about SQLProcessor.type_warnings across calls                       *)

\* The compatibility warnings of a list of queries (lines 322-332).
WarningsOf(query_list) ==
    check_type_compatibility(ColumnSets(FixedQueries(query_list)))

\* C30: when a unify_queries call on a processor ends, type_warnings holds
\* exactly the compatibility warnings of that call's input, whatever calls
\* came before; after a call with the empty list it is empty.
C30_WarningsOfLastCall ==
    unify_pc = "done" => type_warnings = WarningsOf(queries)

-----------------------------------------------------------------------------
(* GitHubIntegration.save_unified_query (process_query.py, 395-452), one    *)
(* action per guarded block.  The platform keeps one branch of a name, one   *)
(* file of a path on it and the open pull requests from it; it refuses to    *)
(* create a reference or a file that exists, and any call may raise.         *)

MaxInvocations == 3

\* The texts saved for the issue.
SaveTexts == {"SELECT 1;", "SELECT 2;"}

outsideSave == <<procVars, unifyVars, athenaVars, modularVars, mainVars>>

\* main, line 514, once per run of the workflow on the issue
InvokeSave ==
    /\ main_pc = "idle"
    /\ save_pc \in {"idle", "returned", "raised"}
    /\ save_calls < MaxInvocations
    /\ save_query' \in SaveTexts
    /\ save_calls' = save_calls + 1
    /\ save_trace' = <<>>
    /\ save_pc' = "start"
    /\ UNCHANGED <<gh_branch, gh_file, gh_open_pulls, branch_creations, file_creations,
                   pull_creations, outsideSave>>

\* Lines 397-398: get_repo answers or raises
SaveStart ==
    /\ save_pc = "start"
    /\ save_pc' \in {"branch", "raised"}
    /\ UNCHANGED <<save_query, save_calls, save_trace, gh_branch, gh_file, gh_open_pulls,
                   branch_creations, file_creations, pull_creations, outsideSave>>

\* Lines 401-411: the branch is found, or created from the default branch,
\* or its creation fails and the call returns
EnsureBranch ==
    /\ save_pc = "branch"
    /\ \/ /\ gh_branch
          /\ save_trace' = Append(save_trace, "branch:found")
          /\ save_pc' = "file"
          /\ UNCHANGED <<gh_branch, branch_creations>>
       \/ /\ ~gh_branch
          /\ gh_branch' = TRUE
          /\ branch_creations' = branch_creations + 1
          /\ save_trace' = Append(save_trace, "branch:created")
          /\ save_pc' = "file"
       \/ /\ save_trace' = Append(save_trace, "branch:failed")
          /\ save_pc' = "returned"
          /\ UNCHANGED <<gh_branch, branch_creations>>
    /\ UNCHANGED <<save_query, save_calls, gh_file, gh_open_pulls, file_creations,
                   pull_creations, outsideSave>>

\* Lines 415-437: the file is updated, or created, or the write fails and
\* the call returns
WriteFile ==
    /\ save_pc = "file"
    /\ \/ /\ gh_file # None
          /\ gh_file' = save_query
          /\ save_trace' = Append(save_trace, "file:updated")
          /\ save_pc' = "pull"
          /\ UNCHANGED file_creations
       \/ /\ gh_file = None
          /\ gh_file' = save_query
          /\ file_creations' = file_creations + 1
          /\ save_trace' = Append(save_trace, "file:created")
          /\ save_pc' = "pull"
       \/ /\ save_trace' = Append(save_trace, "file:failed")
          /\ save_pc' = "returned"
          /\ UNCHANGED <<gh_file, file_creations>>
    /\ UNCHANGED <<save_query, save_calls, gh_branch, gh_open_pulls, branch_creations,
                   pull_creations, outsideSave>>

\* Lines 439-452 without the test of lines 441-443.
OpenPullRequestUnchecked ==
    /\ save_pc = "pull"
    /\ \/ /\ gh_open_pulls' = gh_open_pulls + 1
          /\ pull_creations' = pull_creations + 1
          /\ save_trace' = Append(save_trace, "pull:created")
       \/ /\ save_trace' = Append(save_trace, "pull:failed")
          /\ UNCHANGED <<gh_open_pulls, pull_creations>>
    /\ save_pc' = "returned"
    /\ UNCHANGED <<save_query, save_calls, gh_branch, gh_file, branch_creations,
                   file_creations, outsideSave>>

\* Lines 439-452: an open pull request is found, or one is created, or
\* get_pulls or create_pull raises
OpenPullRequest ==
    /\ save_pc = "pull"
    /\ \/ /\ gh_open_pulls > 0
          /\ save_trace' = Append(save_trace, "pull:exists")
          /\ UNCHANGED <<gh_open_pulls, pull_creations>>
       \/ /\ gh_open_pulls = 0
          /\ gh_open_pulls' = gh_open_pulls + 1
          /\ pull_creations' = pull_creations + 1
          /\ save_trace' = Append(save_trace, "pull:created")
       \/ /\ save_trace' = Append(save_trace, "pull:failed")
          /\ UNCHANGED <<gh_open_pulls, pull_creations>>
    /\ save_pc' = "returned"
    /\ UNCHANGED <<save_query, save_calls, gh_branch, gh_file, branch_creations,
                   file_creations, outsideSave>>

InitSave ==
    /\ SaveIdle
    /\ ProcIdle /\ UnifyIdle /\ AthenaIdle /\ ModularIdle /\ MainIdle

NextSave == InvokeSave \/ SaveStart \/ EnsureBranch \/ WriteFile \/ OpenPullRequest

SpecSave == InitSave /\ [][NextSave]_vars

\* The steps a call can have taken, in order.
SaveSteps ==
    <<{"branch:found", "branch:created", "branch:failed"},
      {"file:updated", "file:created", "file:failed"},
      {"pull:exists", "pull:created", "pull:failed"}>>

\* C26: after any number of save_unified_query calls for one issue the
\* branch was created at most once, the file was created at most once and
\* updated by every later successful write, a pull request was created only
\* with no open one from the branch, so that at most one is open, and a call
\* whose branch creation or file write failed did nothing after it.
C26_SaveRepeatable ==
    /\ branch_creations = (IF gh_branch THEN 1 ELSE 0)
    /\ file_creations = (IF gh_file # None THEN 1 ELSE 0)
    /\ gh_open_pulls <= 1 /\ pull_creations = gh_open_pulls
    /\ gh_file # None => gh_branch
    /\ gh_open_pulls > 0 => gh_file # None
    /\ Len(save_trace) <= 3
    /\ \A k \in 1..Len(save_trace) :
          /\ save_trace[k] \in SaveSteps[k]
          /\ save_trace[k] \in {"branch:failed", "file:failed"} =>
                Len(save_trace) = k /\ save_pc = "returned"
    /\ (save_pc = "returned" /\ Len(save_trace) < 3) =>
          save_trace[Len(save_trace)] \in {"branch:failed", "file:failed"}

\* A third call found the branch, updated the file and found the pull request.
C26_Witness ==
    /\ save_calls = 3
    /\ save_trace = <<"branch:found", "file:updated", "pull:exists">>
    /\ branch_creations = 1 /\ file_creations = 1 /\ pull_creations = 1

-----------------------------------------------------------------------------
(* process_query.main (454-519): one run of the workflow on an issue whose  *)
(* branch, file and pull request earlier runs may have left.  A comment is   *)
(* recorded with the query text and the warnings post_query_to_issue puts    *)
(* into it (373-393); any call to the platform may raise.                    *)

\* The lists extract_queries_from_issue returns.
MainInputs == UnifyInputs

\* What earlier runs on the issue left on the platform.
PriorRuns ==
    {[branch |-> FALSE, file |-> None, pulls |-> 0],
     [branch |-> TRUE, file |-> None, pulls |-> 0],
     [branch |-> TRUE, file |-> "SELECT 1;", pulls |-> 0],
     [branch |-> TRUE, file |-> "SELECT 1;", pulls |-> 1]}

InitMain ==
    /\ main_pc = "start" /\ issue_comments = <<>>
    /\ \E prior \in PriorRuns :
          gh_branch = prior.branch /\ gh_file = prior.file /\ gh_open_pulls = prior.pulls
    /\ save_pc = "idle" /\ save_query = None /\ save_calls = 0 /\ save_trace = <<>>
    /\ branch_creations = 0 /\ file_creations = 0 /\ pull_creations = 0
    /\ ProcIdle /\ UnifyIdle /\ AthenaIdle /\ ModularIdle

outsideMain == <<procVars, athenaVars, modularVars>>

unifyLocals ==
    <<all_column_sets, all_aliases, ctes, union_columns, union_queries, final_query,
      type_warnings, log>>

\* Lines 375-393: create_comment is called with the query and the warnings
PostComment(text, warnings) ==
    issue_comments' = Append(issue_comments, [unified_query |-> text, type_warnings |-> warnings])

\* Lines 455-473: the environment is complete or main returns
MainStart ==
    /\ main_pc = "start"
    /\ main_pc' \in {"extract", "returned"}
    /\ UNCHANGED <<issue_comments, unifyVars, saveVars, outsideMain>>

\* Lines 475-479 and 484-504: the queries are extracted; with some found,
\* unify_queries is called on them
ExtractQueries ==
    /\ main_pc = "extract"
    /\ queries' \in MainInputs
    /\ IF queries' = <<>>
       THEN main_pc' = "report_none" /\ unify_pc' = unify_pc
       ELSE main_pc' = "unify" /\ unify_pc' = "call"
    /\ UNCHANGED <<issue_comments, unifyLocals, saveVars, outsideMain>>

\* Lines 477, 516: get_repo or get_issue raises
ExtractRaises ==
    /\ main_pc = "extract"
    /\ main_pc' = "handler"
    /\ UNCHANGED <<issue_comments, unifyVars, saveVars, outsideMain>>

\* Lines 479-482 followed by a call of save_unified_query.
ReportNoQuerySaving ==
    /\ main_pc = "report_none"
    /\ PostComment("", <<>>)
    /\ main_pc' = "save"
    /\ save_pc' = "start"
    /\ save_query' = ""
    /\ save_calls' = save_calls + 1
    /\ save_trace' = <<>>
    /\ UNCHANGED <<gh_branch, gh_file, gh_open_pulls, branch_creations, file_creations,
                   pull_creations, unifyVars, outsideMain>>

\* Lines 479-482
ReportNoQuery ==
    /\ main_pc = "report_none"
    /\ PostComment("", <<>>)
    /\ main_pc' = "returned"
    /\ UNCHANGED <<unifyVars, saveVars, outsideMain>>

\* Lines 481, 508, 513 and 516: post_query_to_issue raises
PostRaises ==
    /\ \/ main_pc = "report_none"
       \/ main_pc = "unify" /\ unify_pc = "done"
    /\ main_pc' = "handler"
    /\ UNCHANGED <<issue_comments, unifyVars, saveVars, outsideMain>>

\* Lines 506-514: the failure comment, or the comment with the unified query
\* followed by the call of save_unified_query
PostUnifiedQuery ==
    /\ main_pc = "unify" /\ unify_pc = "done"
    /\ IF final_query = ""
       THEN /\ PostComment("", <<>>)
            /\ main_pc' = "returned"
            /\ UNCHANGED <<save_pc, save_query, save_calls, save_trace>>
       ELSE /\ PostComment(final_query, type_warnings)
            /\ main_pc' = "save"
            /\ save_pc' = "start"
            /\ save_query' = final_query
            /\ save_calls' = save_calls + 1
            /\ save_trace' = <<>>
    /\ UNCHANGED <<gh_branch, gh_file, gh_open_pulls, branch_creations, file_creations,
                   pull_creations, unifyVars, outsideMain>>

\* Lines 516-519: the handler posts its comment
ReportException ==
    /\ \/ main_pc = "handler"
       \/ main_pc = "save" /\ save_pc = "raised"
    /\ PostComment("", <<>>)
    /\ main_pc' = "returned"
    /\ UNCHANGED <<unifyVars, saveVars, outsideMain>>

\* Line 519: post_query_to_issue raises in the handler, main ends with it
ReportExceptionRaises ==
    /\ \/ main_pc = "handler"
       \/ main_pc = "save" /\ save_pc = "raised"
    /\ main_pc' = "crashed"
    /\ UNCHANGED <<issue_comments, unifyVars, saveVars, outsideMain>>

NextMain ==
    \/ MainStart \/ ExtractQueries \/ ExtractRaises \/ ReportNoQuery \/ PostRaises
    \/ UnifyQueries \/ PostUnifiedQuery
    \/ SaveStart \/ EnsureBranch \/ WriteFile \/ OpenPullRequest
    \/ ReportException \/ ReportExceptionRaises

SpecMain == InitMain /\ [][NextMain]_vars

-----------------------------------------------------------------------------
(* Claims about process_query.main                                           *)

\* The unified text has been fully produced.
UnifiedTextProduced == unify_pc = "done" /\ final_query \notin {None, ""}

\* C23 as stated: nothing on the platform (comment, branch, file, pull
\* request) is touched before the unified text has been fully produced, so a
\* run that finds no query, unifies to an empty text or raises posts no
\* comment and saves nothing.
C23_NothingBeforeUnifiedText ==
    (issue_comments # <<>> \/ save_calls > 0) => UnifiedTextProduced

\* C23 amended: no branch, file or pull request is touched before the unified
\* text has been fully produced and posted in a comment; every comment carries
\* either that complete text or an empty query text; a run without a unified
\* text saves nothing.
C23_SavedOnlyAfterUnifiedText ==
    /\ \A k \in 1..Len(issue_comments) :
          \/ issue_comments[k].unified_query = ""
          \/ UnifiedTextProduced /\ issue_comments[k].unified_query = final_query
    /\ save_calls > 0 =>
          /\ UnifiedTextProduced
          /\ save_query = final_query
          /\ issue_comments # <<>> /\ issue_comments[1].unified_query = final_query
    /\ save_calls = 0 =>
          /\ save_pc = "idle" /\ save_trace = <<>>
          /\ branch_creations = 0 /\ file_creations = 0 /\ pull_creations = 0
    /\ (\E k \in 1..Len(save_trace) : save_trace[k] \in {"file:updated", "file:created"})
          => gh_file = final_query
    /\ ~UnifiedTextProduced => save_calls = 0

\* The text of two queries was posted, then the branch, the file and the pull
\* request were created.
C23_Witness ==
    /\ Len(queries) = 2
    /\ issue_comments = <<[unified_query |-> final_query, type_warnings |-> type_warnings]>>
    /\ save_trace = <<"branch:created", "file:created", "pull:created">>

\* C29: a run of main posts at most one comment, whatever happens in
\* extraction, unification and saving, and save_unified_query is called only
\* after a comment carrying a non-empty unified query was posted.
C29_AtMostOneComment ==
    /\ Len(issue_comments) <= 1
    /\ save_calls > 0 =>
          \E k \in 1..Len(issue_comments) : issue_comments[k].unified_query # ""

-----------------------------------------------------------------------------
(* execute_data_pipeline (src/aws version/orion.py) with the functions of   *)
(* auth.py, data_ingestion.py, schema_verifier.py, type_analysis.py,         *)
(* transformer.py and query_generator.py it calls.  A Python value whose     *)
(* type decides what a stage does with it carries the type in `pytype`.      *)

\* data_ingestion.py, lines 18-26: value, or raised for an empty result
process_table_names(names) ==
    LET kept == SelectSeq(names, LAMBDA table_name : Strip(table_name) # "")
        cleaned == [n \in 1..Len(kept) |-> Strip(kept[n])]
    IN  [raised |-> cleaned = <<>>, value |-> cleaned]

\* type_analysis.py, lines 21-42, for the rows of one table from the first on
RECURSIVE RowIncompatibilities(_, _)
RowIncompatibilities(table_name, rows) ==
    IF rows = <<>> THEN <<>>
    ELSE LET data == rows[1]
             found ==
                 IF Len(data) < 2 THEN <<>>
                 ELSE IF data[1] = "" \/ data[2] = "" THEN <<>>
                 ELSE IF data[2] \notin {"string", "int", "float"}
                      THEN <<[tabela |-> table_name, coluna |-> data[1], tipo |-> data[2],
                              motivo |-> "Unexpected data type: " \o data[2]]>>
                      ELSE <<>>
         IN  found \o RowIncompatibilities(table_name, Tail(rows))

\* type_analysis.py, lines 15-47: table_metadata.get (line 18) raises
\* AttributeError on a value that is not a dict
RECURSIVE analyze_data_types(_)
analyze_data_types(metadata) ==
    IF metadata = <<>> THEN [raised |-> FALSE, value |-> <<>>]
    ELSE IF metadata[1].pytype # "dict" THEN [raised |-> TRUE, value |-> <<>>]
    ELSE LET rest == analyze_data_types(Tail(metadata))
         IN  [raised |-> rest.raised,
              value |-> RowIncompatibilities(metadata[1].TableName, metadata[1].Rows)
                            \o rest.value]

\* transformer.py, lines 17-40
RECURSIVE transform_data_types(_)
transform_data_types(incompatibilities) ==
    IF incompatibilities = <<>> THEN <<>>
    ELSE LET incompatibility == incompatibilities[1]
             column_name == incompatibility.coluna
             detected_types ==
                 IF "tipos_detectados" \in DOMAIN incompatibility
                 THEN Elements(incompatibility.tipos_detectados) ELSE {}
             action ==
                 IF "string" \in detected_types THEN "converter_para_string"
                 ELSE IF detected_types \cap {"float", "int"} # {} THEN "converter_para_float"
                 ELSE "manter_indefinido"
         IN  (IF column_name = "" \/ detected_types = {} THEN <<>>
              ELSE <<[coluna |-> column_name, acao |-> action]>>)
                 \o transform_data_types(Tail(incompatibilities))

\* query_generator.py, lines 20-52: value, or raised for fewer than two tables
generate_athena_query(tables, transformations) ==
    LET first_of(column) ==
            CHOOSE n \in 1..Len(transformations) :
                /\ transformations[n].coluna = column
                /\ \A m \in 1..(n - 1) : transformations[m].coluna # column
        last_of(column) ==
            CHOOSE n \in 1..Len(transformations) :
                /\ transformations[n].coluna = column
                /\ \A m \in (n + 1)..Len(transformations) : transformations[m].coluna # column
        keys == SelectSeq([n \in 1..Len(transformations) |-> n],
                          LAMBDA n : first_of(transformations[n].coluna) = n)
        part(n) ==
            LET column == transformations[n].coluna
                action == transformations[last_of(column)].acao
            IN  IF action = "converter_para_string"
                THEN "CAST(" \o column \o " AS STRING) AS " \o column
                ELSE IF action = "converter_para_float"
                THEN "CAST(" \o column \o " AS FLOAT) AS " \o column
                ELSE column
        select_parts == [k \in 1..Len(keys) |-> part(keys[k])]
        select_text ==
            IF select_parts = <<>> THEN "*" ELSE JoinWith(select_parts, ", ")
        join_clauses ==
            [n \in 1..(Len(tables) - 1) |->
                "FULL OUTER JOIN " \o tables[n + 1] \o " USING (chave_comum)"]
    IN  IF Len(tables) < 2 THEN [raised |-> TRUE, value |-> None]
        ELSE [raised |-> FALSE,
              value |-> "SELECT " \o select_text \o "\n    FROM " \o tables[1]
                            \o "\n    " \o JoinWith(join_clauses, " ") \o "\n    ;"]

\* The configurations: the credentials, region, bucket and database all
\* given or not, and the table names.
PipelineConfigs ==
    [settings : BOOLEAN, tables : SeqsUpTo(RawTableNames, MaxTables)]

InitModular ==
    /\ pipeline_config \in PipelineConfigs
    /\ pipeline_pc = "start"
    /\ processed_table_names = <<>> /\ table_schemas = <<>>
    /\ athena_state = None /\ pipeline_result = None
    /\ ProcIdle /\ UnifyIdle /\ AthenaIdle /\ MainIdle /\ SaveIdle

outsideModular == <<procVars, unifyVars, athenaVars, mainVars, saveVars>>

\* orion.py, lines 91-93: the exception is caught, None is returned
PipelineFails ==
    /\ pipeline_result' = None
    /\ pipeline_pc' = "returned"

\* orion.py, lines 26-42
CheckConfiguration ==
    /\ pipeline_pc = "start"
    /\ IF pipeline_config.settings /\ pipeline_config.tables # <<>>
       THEN pipeline_pc' = "auth" /\ pipeline_result' = pipeline_result
       ELSE PipelineFails
    /\ UNCHANGED <<pipeline_config, processed_table_names, table_schemas, athena_state,
                   outsideModular>>

\* orion.py, line 46, and auth.py, lines 21-35: the client, or RuntimeError
ModularAuthenticate ==
    /\ pipeline_pc = "auth"
    /\ \/ pipeline_pc' = "ingest" /\ pipeline_result' = pipeline_result
       \/ PipelineFails
    /\ UNCHANGED <<pipeline_config, processed_table_names, table_schemas, athena_state,
                   outsideModular>>

\* orion.py, lines 51 and 56
ProcessTableNames ==
    /\ pipeline_pc = "ingest"
    /\ \E r \in {process_table_names(pipeline_config.tables)} :
          IF r.raised
          THEN PipelineFails /\ processed_table_names' = processed_table_names
          ELSE /\ processed_table_names' = r.value
               /\ pipeline_pc' = "query"
               /\ pipeline_result' = pipeline_result
    /\ UNCHANGED <<pipeline_config, table_schemas, athena_state, outsideModular>>

\* orion.py, line 59, and schema_verifier.py, lines 29-40: the query is
\* started, or start_query_execution raises
StartSchemaQuery ==
    /\ pipeline_pc = "query"
    /\ \/ /\ athena_state' = "RUNNING"
          /\ pipeline_pc' = "poll"
          /\ pipeline_result' = pipeline_result
       \/ PipelineFails /\ athena_state' = athena_state
    /\ UNCHANGED <<pipeline_config, processed_table_names, table_schemas, outsideModular>>

\* schema_verifier.py, lines 41-48: an iteration that does not raise
PollSchemaQuery ==
    /\ pipeline_pc = "poll"
    /\ athena_state \in {"RUNNING", "QUEUED"}
    /\ athena_state' \in {"RUNNING", "QUEUED", "SUCCEEDED"}
    /\ UNCHANGED <<pipeline_pc, pipeline_config, processed_table_names, table_schemas,
                   pipeline_result, outsideModular>>

\* schema_verifier.py, lines 42-47 and 53-54: the state is FAILED or
\* CANCELLED, or get_query_execution raises
SchemaQueryFails ==
    /\ pipeline_pc = "poll"
    /\ athena_state \in {"RUNNING", "QUEUED"}
    /\ athena_state' \in {athena_state, "FAILED", "CANCELLED"}
    /\ PipelineFails
    /\ UNCHANGED <<pipeline_config, processed_table_names, table_schemas, outsideModular>>

\* schema_verifier.py, lines 50-54, and orion.py, lines 57-61: the rows are
\* returned as a list and appended, or get_query_results raises
FetchSchemaResults ==
    /\ pipeline_pc = "poll"
    /\ athena_state \notin {"RUNNING", "QUEUED"}
    /\ \/ /\ \E rows \in ResultRows :
                table_schemas' = Append(table_schemas, [pytype |-> "list", items |-> rows])
          /\ pipeline_pc' = IF Len(table_schemas') = Len(processed_table_names)
                            THEN "analyze" ELSE "query"
          /\ pipeline_result' = pipeline_result
       \/ PipelineFails /\ table_schemas' = table_schemas
    /\ UNCHANGED <<pipeline_config, processed_table_names, athena_state, outsideModular>>

\* orion.py, lines 65-93
AnalyzeTransformGenerate ==
    /\ pipeline_pc = "analyze"
    /\ \E type_incompatibilities \in {analyze_data_types(table_schemas)} :
          IF type_incompatibilities.raised THEN PipelineFails
          ELSE \E final_query_generated \in
                      {generate_athena_query(processed_table_names,
                           transform_data_types(type_incompatibilities.value))} :
                  /\ pipeline_result' = final_query_generated.value
                  /\ pipeline_pc' = "returned"
    /\ UNCHANGED <<pipeline_config, processed_table_names, table_schemas, athena_state,
                   outsideModular>>

NextModular ==
    \/ CheckConfiguration \/ ModularAuthenticate \/ ProcessTableNames
    \/ StartSchemaQuery \/ PollSchemaQuery \/ SchemaQueryFails \/ FetchSchemaResults
    \/ AnalyzeTransformGenerate

SpecModular == InitModular /\ [][NextModular]_vars

\* The pipeline is sequential code: a stage that can run does run, and an
\* iteration of the polling loop follows the previous one's sleep.
SpecModularFair == SpecModular /\ WF_vars(NextModular)

-----------------------------------------------------------------------------
(* Claims about the modular pipeline                                         *)

\* C24: with a complete configuration, a successful authentication and a
\* schema retrieved for each of at least two tables, execute_data_pipeline
\* returns the generated query, not None: the list of schemas is accepted by
\* analyze_data_types, its result by transform_data_types, and that by
\* generate_athena_query.
C24_PipelineReturnsQuery ==
    (/\ pipeline_pc = "returned"
     /\ Len(processed_table_names) >= 2
     /\ Len(table_schemas) = Len(processed_table_names))
    => /\ ~analyze_data_types(table_schemas).raised
       /\ pipeline_result # None

\* C25: the polling loop of get_athena_table_schema ends whatever the engine
\* answers.
C25_PollingTerminates == (pipeline_pc = "poll") ~> (pipeline_pc # "poll")

====
